---- MODULE Spec2Model ----
(***************************************************************************)
(* Conference networking bot: the dialog session maps and text dispatch of *)
(* src/telegram/bot.js, the validation schemas, the slide and profile      *)
(* services, and the poll / question / conference services the handlers    *)
(* call.                                                                   *)
(*                                                                         *)
(* A text is a sequence of one-character strings.  A Cyrillic letter is    *)
(* written "ru_x" (lower case) or "RU_X" (upper case); a reply-keyboard    *)
(* label (an emoji followed by Russian words) is written as one symbol     *)
(* "[kb:...]" that stands for the whole label.                             *)
(***************************************************************************)
EXTENDS Integers, Sequences, FiniteSets, Bags, TLC

VARIABLES
    userState,        \* bot.js userState: Map telegramId -> flow state
    onboardingState,  \* bot.js onboardingState: Map telegramId -> {step, data}
    conferences,      \* Conference collection, keyed by conferenceCode
    profiles,         \* UserProfile collection, keyed by <<telegramId, conference _id>>
    questions,        \* Question collection, keyed by _id
    polls,            \* Poll collection, keyed by _id
    reply,            \* what the last handler answered, and to whom
    call,             \* the service call the last handler made, and its outcome
    inflight,         \* handlers suspended at an await: vote:poll before voteInPoll,
                      \* upsertProfileForConference between findOne and save
    mutations,        \* number of dialog handlers so far that changed a collection
    events,           \* what ioInstance.to(room).emit has been given, in order
    ioInstance,       \* realtime.js ioInstance: "null", a server, or one whose emit throws
    profileDocs,      \* UserProfile documents by _id, as single find and save calls see them
    match,            \* the callback data handled last and what its handler took from ctx.match
    dialogs           \* how many identities the run lets be in a dialog at the same time

sessionVars == <<userState, onboardingState>>
domainVars  == <<conferences, profiles, questions, polls>>
sideVars == <<events, ioInstance, profileDocs, match, dialogs>>
vars == <<userState, onboardingState, conferences, profiles, questions, polls,
          reply, call, inflight, mutations, events, ioInstance, profileDocs, match, dialogs>>

-----------------------------------------------------------------------------
(* Texts *)

UpperLatin == <<"A","B","C","D","E","F","G","H","I","J","K","L","M",
                "N","O","P","Q","R","S","T","U","V","W","X","Y","Z">>
LowerLatin == <<"a","b","c","d","e","f","g","h","i","j","k","l","m",
                "n","o","p","q","r","s","t","u","v","w","x","y","z">>
UpperCyr == <<"RU_O","RU_T","RU_M","RU_E","RU_N","RU_A">>
LowerCyr == <<"ru_o","ru_t","ru_m","ru_e","ru_n","ru_a">>
Digits == {"0","1","2","3","4","5","6","7","8","9"}

Range(s) == {s[i] : i \in DOMAIN s}

\* String.prototype.toLowerCase on one character
LowerChar(c) ==
    IF \E i \in DOMAIN UpperLatin : UpperLatin[i] = c
    THEN LowerLatin[CHOOSE i \in DOMAIN UpperLatin : UpperLatin[i] = c]
    ELSE IF \E i \in DOMAIN UpperCyr : UpperCyr[i] = c
         THEN LowerCyr[CHOOSE i \in DOMAIN UpperCyr : UpperCyr[i] = c]
         ELSE c

toLowerCase(t) == [i \in DOMAIN t |-> LowerChar(t[i])]

IsSpace(c) == c = " "

RECURSIVE TrimLeft(_)
TrimLeft(t) == IF t # <<>> /\ IsSpace(Head(t)) THEN TrimLeft(Tail(t)) ELSE t

RECURSIVE TrimRight(_)
TrimRight(t) ==
    IF t # <<>> /\ IsSpace(t[Len(t)]) THEN TrimRight(SubSeq(t, 1, Len(t) - 1)) ELSE t

\* String.prototype.trim
trim(t) == TrimRight(TrimLeft(t))

startsWith(t, p) == Len(t) >= Len(p) /\ SubSeq(t, 1, Len(p)) = p

\* String.prototype.split(sep) for a one-character separator
RECURSIVE SplitFrom(_, _, _)
SplitFrom(t, sep, cur) ==
    IF t = <<>> THEN <<cur>>
    ELSE IF Head(t) = sep THEN <<cur>> \o SplitFrom(Tail(t), sep, <<>>)
         ELSE SplitFrom(Tail(t), sep, Append(cur, Head(t)))

split(t, sep) == SplitFrom(t, sep, <<>>)

\* Array.prototype.filter(Boolean) on an array of strings: drops the empty ones
RECURSIVE filterBoolean(_)
filterBoolean(parts) ==
    IF parts = <<>> THEN <<>>
    ELSE IF Head(parts) = <<>> THEN filterBoolean(Tail(parts))
         ELSE <<Head(parts)>> \o filterBoolean(Tail(parts))

\* Array.prototype.join(sep)
RECURSIVE join(_, _)
join(parts, sep) ==
    IF parts = <<>> THEN <<>>
    ELSE IF Len(parts) = 1 THEN parts[1]
         ELSE parts[1] \o sep \o join(Tail(parts), sep)

\* text.split(',').map((s) => s.trim()).filter(Boolean)
commaList(t) ==
    LET raw == split(t, ",") IN filterBoolean([i \in DOMAIN raw |-> trim(raw[i])])

\* text.split(' ').filter(Boolean)
spaceWords(t) == filterBoolean(split(t, " "))

\* /^\d+$/.test(t)
isDigits(t) == t # <<>> /\ \A i \in DOMAIN t : t[i] \in Digits

-----------------------------------------------------------------------------
(* lib/validation: the Joi schemas and validate() *)

MAX_NAME_LENGTH == 100
MAX_INTERESTS_COUNT == 20
MAX_INTEREST_LENGTH == 50
MAX_OFFERING_LENGTH == 200
MAX_LOOKING_FOR_LENGTH == 200
MAX_QUESTION_LENGTH == 500
MIN_QUESTION_LENGTH == 10
MAX_POLL_QUESTION_LENGTH == 200
MIN_POLL_QUESTION_LENGTH == 5
MAX_OPTIONS_COUNT == 10
MIN_OPTIONS_COUNT == 2
MAX_OPTION_TEXT_LENGTH == 100
MAX_TITLE_LENGTH == 200
MIN_TITLE_LENGTH == 3
MAX_DESCRIPTION_LENGTH == 1000
MAX_SLIDE_TITLE_LENGTH == 200
MAX_SLIDE_URL_LENGTH == 2048

IsLetter(c) == c \in Range(UpperLatin) \cup Range(LowerLatin)
                    \cup Range(UpperCyr) \cup Range(LowerCyr)

\* /^[a-zA-Z<cyrillic>\s\-'\.]+$/
NameChar(c) == IsLetter(c) \/ IsSpace(c) \/ c \in {"-", "'", "."}

\* /^[a-zA-Z<cyrillic>0-9\s\-_,\.]+$/
InterestChar(c) == IsLetter(c) \/ c \in Digits \/ IsSpace(c) \/ c \in {"-", "_", ",", "."}

\* Joi.string().trim().min(lo).max(hi): the trimmed value is what is measured
lengthWithin(t, lo, hi) == Len(trim(t)) >= lo /\ Len(trim(t)) <= hi

nameSchema(t) ==
    /\ lengthWithin(t, 1, MAX_NAME_LENGTH)
    /\ \A i \in DOMAIN trim(t) : NameChar(trim(t)[i])

interestsSchema(list) ==
    /\ Len(list) <= MAX_INTERESTS_COUNT
    /\ \A k \in DOMAIN list :
          /\ lengthWithin(list[k], 1, MAX_INTEREST_LENGTH)
          /\ \A i \in DOMAIN trim(list[k]) : InterestChar(trim(list[k])[i])

offeringsSchema(list) ==
    /\ Len(list) <= MAX_INTERESTS_COUNT
    /\ \A k \in DOMAIN list : lengthWithin(list[k], 1, MAX_OFFERING_LENGTH)

lookingForSchema(list) ==
    /\ Len(list) <= MAX_INTERESTS_COUNT
    /\ \A k \in DOMAIN list : lengthWithin(list[k], 1, MAX_LOOKING_FOR_LENGTH)

\* validate(data, userProfileSchema) does not throw; data is the object as a
\* function from its keys.  lastName may be the empty string.
userProfileSchema(data) ==
    /\ "firstName" \in DOMAIN data => nameSchema(data.firstName)
    /\ "lastName" \in DOMAIN data => (data.lastName = <<>> \/ nameSchema(data.lastName))
    /\ "interests" \in DOMAIN data => interestsSchema(data.interests)
    /\ "offerings" \in DOMAIN data => offeringsSchema(data.offerings)
    /\ "lookingFor" \in DOMAIN data => lookingForSchema(data.lookingFor)

\* questionTextSchema: control characters are not part of the alphabet
questionTextSchema(t) == lengthWithin(t, MIN_QUESTION_LENGTH, MAX_QUESTION_LENGTH)

questionSchema(text, conferenceCode) ==
    questionTextSchema(text) /\ Len(trim(conferenceCode)) >= 1

pollQuestionSchema(t) ==
    lengthWithin(t, MIN_POLL_QUESTION_LENGTH, MAX_POLL_QUESTION_LENGTH)

pollOptionSchema(t) == lengthWithin(t, 1, MAX_OPTION_TEXT_LENGTH)

\* pollSchema without the limits on the number of options
pollSchemaAnyCount(question, options, conferenceCode) ==
    /\ pollQuestionSchema(question)
    /\ \A k \in DOMAIN options : pollOptionSchema(options[k])
    /\ Len(trim(conferenceCode)) >= 1

pollSchema(question, options, conferenceCode) ==
    /\ pollQuestionSchema(question)
    /\ Len(options) >= MIN_OPTIONS_COUNT
    /\ Len(options) <= MAX_OPTIONS_COUNT
    /\ \A k \in DOMAIN options : pollOptionSchema(options[k])
    /\ Len(trim(conferenceCode)) >= 1

conferenceSchema(title, description) ==
    /\ lengthWithin(title, MIN_TITLE_LENGTH, MAX_TITLE_LENGTH)
    /\ Len(trim(description)) <= MAX_DESCRIPTION_LENGTH

\* Joi.string().uri({ scheme: ['http', 'https'] }).max(2048).required():
\* the scheme, a colon, and a non-empty remainder without white space
slideUrlSchema(url) ==
    LET low == toLowerCase(url)
        rest == IF startsWith(low, <<"h","t","t","p","s",":">>) THEN SubSeq(url, 7, Len(url))
                ELSE IF startsWith(low, <<"h","t","t","p",":">>) THEN SubSeq(url, 6, Len(url))
                ELSE <<>>
    IN  /\ rest # <<>>
        /\ \A i \in DOMAIN url : ~IsSpace(url[i])
        /\ Len(url) <= MAX_SLIDE_URL_LENGTH

slideSchema(url, title, conferenceCode) ==
    /\ slideUrlSchema(url)
    /\ Len(trim(title)) <= MAX_SLIDE_TITLE_LENGTH
    /\ Len(trim(conferenceCode)) >= 1

-----------------------------------------------------------------------------
(* Identities and the collections *)

\* Telegram ids of the accounts that talk to the bot
Users == {1, 7}

\* MAIN_ADMIN_TELEGRAM_IDS
MainAdminIds == {1}

userIsMainAdmin(u) == u \in MainAdminIds

\* Map.prototype.set / delete on a map kept as a function from its keys
MapSet(m, k, v) == [x \in (DOMAIN m) \cup {k} |-> IF x = k THEN v ELSE m[x]]
MapDelete(m, k) == [x \in (DOMAIN m) \ {k} |-> m[x]]
EmptyMap == <<>>

\* the bounds of the explored runs
MaxInFlight == 2      \* vote:poll events in flight at once
NumOptions == 2       \* options of the poll of the voting runs
MaxMutations == 1     \* successful service mutations in a dialog run

NoReply == [user |-> 0, kind |-> "none", was |-> "undefined"]
NoCall == [op |-> "none", user |-> 0, error |-> "none"]

\* no callback data handled yet
NoMatch == [data |-> <<>>]

-----------------------------------------------------------------------------
(* Conference, question and poll services, as the handlers use them *)

\* a value that is not there (undefined / null)
Undefined == <<"undefined">>

\* object[key], undefined when the key is not there
Field(object, key) == IF key \in DOMAIN object THEN object[key] ELSE Undefined

\* null, where the code writes it out
Null == <<"null">>

\* the outcome of an emit whose transport throws
TransportError == "TRANSPORT_ERROR"

\* String(n) for the small numbers of the model
RECURSIVE NatText(_)
NatText(n) ==
    LET d == <<"0","1","2","3","4","5","6","7","8","9">>[(n % 10) + 1]
    IN  IF n < 10 THEN <<d>> ELSE Append(NatText(n \div 10), d)

\* the room of a conference: `conference-${conferenceId.toString()}`
Room(conferenceId) ==
    <<"c","o","n","f","e","r","e","n","c","e","-">> \o NatText(conferenceId)

\* emitToConference addressing every event to the room of the conference with id 1
emitToConferenceOneRoom(log, conferenceId, event, payload) ==
    IF ioInstance = "null" THEN [error |-> "none", events |-> log]
    ELSE IF ioInstance = "io_down" THEN [error |-> TransportError, events |-> log]
    ELSE [error |-> "none",
          events |-> Append(log, [room |-> Room(1), event |-> event,
                                  payload |-> payload])]

\* emitToConference handing the event to the server twice
emitToConferenceTwice(log, conferenceId, event, payload) ==
    IF ioInstance = "null" THEN [error |-> "none", events |-> log]
    ELSE IF ioInstance = "io_down" THEN [error |-> TransportError, events |-> log]
    ELSE LET e == [room |-> Room(conferenceId), event |-> event, payload |-> payload]
         IN  [error |-> "none", events |-> log \o <<e, e>>]

\* realtime.js emitToConference(conferenceId, event, payload): nothing without
\* an ioInstance; else ioInstance.to(room).emit, which is not guarded, so a
\* throwing emit throws out of emitToConference
emitToConference(log, conferenceId, event, payload) ==
    IF ioInstance = "null" THEN [error |-> "none", events |-> log]
    ELSE IF ioInstance = "io_down" THEN [error |-> TransportError, events |-> log]
    ELSE [error |-> "none",
          events |-> Append(log, [room |-> Room(conferenceId), event |-> event,
                                  payload |-> payload])]

ProfileKey(u, conferenceId) == <<u, conferenceId>>

NewProfile(roles) == [roles |-> roles, isActive |-> TRUE, onboardingCompleted |-> FALSE]

NewConference(id, title, description) ==
    [id |-> id, title |-> title, description |-> description,
     isActive |-> TRUE, isEnded |-> FALSE, admins |-> {},
     currentSlideUrl |-> Undefined, currentSlideTitle |-> Undefined]

NewQuestion(conferenceId, author, text, target) ==
    [conference |-> conferenceId, author |-> author, text |-> text,
     status |-> "pending", targetSpeaker |-> target, isAnswered |-> FALSE,
     answer |-> Undefined, answeredBy |-> Undefined]

\* User.globalRole
globalRole(u) == IF userIsMainAdmin(u) THEN "main_admin" ELSE "user"

\* listConferencesForUser: the codes of the conferences the user has a
\* profile in; every conference for a main admin
listConferencesForUser(u) ==
    {c \in DOMAIN conferences :
        userIsMainAdmin(u) \/ ProfileKey(u, conferences[c].id) \in DOMAIN profiles}

\* slide.service assertConferenceAdmin: does not throw
isConferenceAdmin(u, conference) ==
    \/ userIsMainAdmin(u)
    \/ LET profileIds == {k \in DOMAIN profiles : k[1] = u /\ k[2] = conference.id}
       IN  profileIds # {} /\ \E id \in conference.admins : id \in profileIds

\* joinConference({telegramUser, code})
\* joinConference without the test for an ended conference
joinConferenceWhileEnded(u, code) ==
    IF code \notin DOMAIN conferences
    THEN [error |-> "CONFERENCE_NOT_FOUND", profiles |-> profiles]
    ELSE LET key == ProfileKey(u, conferences[code].id)
         IN  [error |-> "none",
              profiles |-> IF key \in DOMAIN profiles THEN profiles
                           ELSE MapSet(profiles, key, NewProfile({"participant"}))]

joinConference(u, code) ==
    IF code \notin DOMAIN conferences \/ conferences[code].isEnded
    THEN [error |-> "CONFERENCE_NOT_FOUND", profiles |-> profiles]
    ELSE LET key == ProfileKey(u, conferences[code].id)
         IN  [error |-> "none",
              profiles |-> IF key \in DOMAIN profiles THEN profiles
                           ELSE MapSet(profiles, key, NewProfile({"participant"}))]

\* upsertProfileForConference({telegramId, conferenceId, data})
upsertProfileForConference(profs, u, conferenceId, data) ==
    IF ~userProfileSchema(data)
    THEN [error |-> "VALIDATION_ERROR", profiles |-> profs]
    ELSE LET key == ProfileKey(u, conferenceId)
             found == IF key \in DOMAIN profs THEN profs[key]
                      ELSE [isActive |-> TRUE]
             assigned == [f \in (DOMAIN found) \cup (DOMAIN data) \cup {"onboardingCompleted"} |->
                            IF f = "onboardingCompleted" THEN TRUE
                            ELSE IF f \in DOMAIN data THEN data[f] ELSE found[f]]
         IN  [error |-> "none", profiles |-> MapSet(profs, key, assigned)]

\* askQuestion({telegramUser, conferenceCode, text, targetSpeakerProfileId})
askQuestion(u, code, text, target) ==
    IF ~questionSchema(text, code)
    THEN [error |-> "VALIDATION_ERROR", questions |-> questions]
    ELSE IF code \notin DOMAIN conferences \/ conferences[code].isEnded
    THEN [error |-> "CONFERENCE_NOT_FOUND", questions |-> questions]
    ELSE LET confId == conferences[code].id
             author == IF ProfileKey(u, confId) \in DOMAIN profiles
                       THEN ProfileKey(u, confId) ELSE Undefined
         IN  [error |-> "none",
              questions |-> MapSet(questions, Cardinality(DOMAIN questions) + 1,
                                   NewQuestion(confId, author, trim(text), target))]

\* the broadcast of a moderation decision once it is saved: question-approved
\* for an approval, nothing for a rejection; a failing publish is swallowed
published(questionId, status, saved) ==
    IF status # "approved"
    THEN [error |-> "none", questions |-> saved, events |-> events]
    ELSE [error |-> "none", questions |-> saved,
          events |-> emitToConference(events, saved[questionId].conference,
                         "question-approved",
                         [text |-> saved[questionId].text,
                          hasTarget |-> saved[questionId].targetSpeaker # Undefined]).events]

\* approveQuestion without the authorization check
approveQuestionWithoutCheck(u, code, questionId) ==
    IF code \notin DOMAIN conferences
    THEN [error |-> "CONFERENCE_NOT_FOUND", questions |-> questions, events |-> events]
    ELSE IF \/ questionId \notin DOMAIN questions
            \/ questions[questionId].conference # conferences[code].id
            \/ questions[questionId].status # "pending"
    THEN [error |-> "QUESTION_NOT_FOUND", questions |-> questions, events |-> events]
    ELSE published(questionId, "approved",
                   [questions EXCEPT ![questionId].status = "approved"])

\* moderateQuestion taking a question of any status
moderateQuestionAnyStatus(u, code, questionId, status) ==
    IF code \notin DOMAIN conferences
    THEN [error |-> "CONFERENCE_NOT_FOUND", questions |-> questions, events |-> events]
    ELSE IF ~isConferenceAdmin(u, conferences[code])
    THEN [error |-> "ACCESS_DENIED", questions |-> questions, events |-> events]
    ELSE IF \/ questionId \notin DOMAIN questions
            \/ questions[questionId].conference # conferences[code].id
    THEN [error |-> "QUESTION_NOT_FOUND", questions |-> questions, events |-> events]
    ELSE published(questionId, status,
                   [questions EXCEPT ![questionId].status = status])

\* the shared body of approveQuestion and rejectQuestion: the conference, the
\* moderator's authorization for it, the pending question in it, the new status
moderateQuestion(u, code, questionId, status) ==
    IF code \notin DOMAIN conferences
    THEN [error |-> "CONFERENCE_NOT_FOUND", questions |-> questions, events |-> events]
    ELSE IF ~isConferenceAdmin(u, conferences[code])
    THEN [error |-> "ACCESS_DENIED", questions |-> questions, events |-> events]
    ELSE IF \/ questionId \notin DOMAIN questions
            \/ questions[questionId].conference # conferences[code].id
            \/ questions[questionId].status # "pending"
    THEN [error |-> "QUESTION_NOT_FOUND", questions |-> questions, events |-> events]
    ELSE published(questionId, status,
                   [questions EXCEPT ![questionId].status = status])

\* approveQuestion({moderatorUser, conferenceCode, questionId})
approveQuestion(u, code, questionId) == moderateQuestion(u, code, questionId, "approved")

\* rejectQuestion({moderatorUser, conferenceCode, questionId})
rejectQuestion(u, code, questionId) == moderateQuestion(u, code, questionId, "rejected")

hasSpeakerRole(u, conferenceId) ==
    /\ ProfileKey(u, conferenceId) \in DOMAIN profiles
    /\ "speaker" \in profiles[ProfileKey(u, conferenceId)].roles

\* answerQuestion taking a question of any status
answerQuestionAnyStatus(u, code, questionId, answerText) ==
    IF code \notin DOMAIN conferences
    THEN [error |-> "CONFERENCE_NOT_FOUND", questions |-> questions]
    ELSE IF ~hasSpeakerRole(u, conferences[code].id)
    THEN [error |-> "NOT_SPEAKER", questions |-> questions]
    ELSE IF \/ questionId \notin DOMAIN questions
            \/ questions[questionId].conference # conferences[code].id
    THEN [error |-> "QUESTION_NOT_FOUND", questions |-> questions]
    ELSE [error |-> "none",
          questions |-> [questions EXCEPT
              ![questionId].isAnswered = TRUE,
              ![questionId].answer = answerText,
              ![questionId].answeredBy = ProfileKey(u, conferences[code].id)]]

\* answerQuestion({speakerUser, conferenceCode, questionId, answerText})
answerQuestion(u, code, questionId, answerText) ==
    IF code \notin DOMAIN conferences
    THEN [error |-> "CONFERENCE_NOT_FOUND", questions |-> questions]
    ELSE IF ~hasSpeakerRole(u, conferences[code].id)
    THEN [error |-> "NOT_SPEAKER", questions |-> questions]
    ELSE IF \/ questionId \notin DOMAIN questions
            \/ questions[questionId].conference # conferences[code].id
            \/ questions[questionId].status # "approved"
    THEN [error |-> "QUESTION_NOT_FOUND", questions |-> questions]
    ELSE IF questions[questionId].targetSpeaker \notin {Undefined, ProfileKey(u, conferences[code].id)}
    THEN [error |-> "QUESTION_NOT_FOR_YOU", questions |-> questions]
    ELSE [error |-> "none",
          questions |-> [questions EXCEPT
              ![questionId].isAnswered = TRUE,
              ![questionId].answer = answerText,
              ![questionId].answeredBy = ProfileKey(u, conferences[code].id)]]

\* updateConference({conferenceCode, requestedByUser, payload}); payload is the
\* object as a function from its keys (title, description)
updateConference(u, code, payload) ==
    IF code \notin DOMAIN conferences
    THEN [error |-> "CONFERENCE_NOT_FOUND", conferences |-> conferences]
    ELSE IF ~isConferenceAdmin(u, conferences[code])
    THEN [error |-> "ACCESS_DENIED", conferences |-> conferences]
    ELSE IF conferences[code].isEnded
    THEN [error |-> "CONFERENCE_ENDED", conferences |-> conferences]
    ELSE IF \/ "title" \in DOMAIN payload
               /\ ~lengthWithin(payload.title, MIN_TITLE_LENGTH, MAX_TITLE_LENGTH)
            \/ "description" \in DOMAIN payload
               /\ Len(trim(payload.description)) > MAX_DESCRIPTION_LENGTH
    THEN [error |-> "VALIDATION_ERROR", conferences |-> conferences]
    ELSE [error |-> "none",
          conferences |-> [conferences EXCEPT ![code] =
              [f \in DOMAIN @ |-> IF f \in DOMAIN payload THEN trim(payload[f]) ELSE @[f]]]]

\* the shared body of endConference, startConference and stopConference: the
\* conference, the requester's authorization for it, then the new flags; an
\* ended conference takes no start or stop
lifecycle(u, code, op) ==
    IF code \notin DOMAIN conferences
    THEN [error |-> "CONFERENCE_NOT_FOUND", conferences |-> conferences, events |-> events]
    ELSE IF ~isConferenceAdmin(u, conferences[code])
    THEN [error |-> "ACCESS_DENIED", conferences |-> conferences, events |-> events]
    ELSE IF op = "endConference"
    THEN [error |-> "none", events |-> events,
          conferences |-> [conferences EXCEPT ![code].isEnded = TRUE,
                                              ![code].isActive = FALSE]]
    ELSE IF conferences[code].isEnded
    THEN [error |-> "CONFERENCE_ENDED", conferences |-> conferences, events |-> events]
    ELSE [error |-> "none", events |-> events,
          conferences |-> [conferences EXCEPT ![code].isActive = (op = "startConference")]]

\* endConference({code, requestedByUser})
endConference(u, code) == lifecycle(u, code, "endConference")

\* startConference({conferenceCode, requestedByUser})
startConference(u, code) == lifecycle(u, code, "startConference")

\* stopConference({conferenceCode, requestedByUser})
stopConference(u, code) == lifecycle(u, code, "stopConference")

\* the codes createConference can generate
CodePool == {<<"d","e","v">>, <<"e","x","p","o">>}

\* createConference({createdByUser, payload})
createConference(u, title, description) ==
    IF globalRole(u) \notin {"main_admin", "conference_admin"}
    THEN [error |-> "ACCESS_DENIED", conferences |-> conferences]
    ELSE IF ~conferenceSchema(title, description)
    THEN [error |-> "VALIDATION_ERROR", conferences |-> conferences]
    ELSE IF CodePool \subseteq DOMAIN conferences
    THEN [error |-> "CODE_GENERATION_FAILED", conferences |-> conferences]
    ELSE LET code == CHOOSE c \in CodePool : c \notin DOMAIN conferences
         IN  [error |-> "none",
              conferences |-> MapSet(conferences, code,
                  NewConference(Cardinality(DOMAIN conferences) + 1,
                                trim(title), trim(description)))]

\* a poll as createPoll stores it: option ids 0-based in input order, no voters
NewPoll(conferenceId, question, optionTexts) ==
    [conference |-> conferenceId, question |-> question, isActive |-> TRUE,
     options |-> [k \in DOMAIN optionTexts |->
                    [id |-> k - 1, text |-> optionTexts[k], voters |-> {}]]]

\* createPoll({moderatorUser, conferenceCode, payload})
createPoll(u, code, question, optionTexts) ==
    IF ~pollSchema(question, optionTexts, code)
    THEN [error |-> "VALIDATION_ERROR", polls |-> polls]
    ELSE IF code \notin DOMAIN conferences
    THEN [error |-> "CONFERENCE_NOT_FOUND", polls |-> polls]
    ELSE IF ~isConferenceAdmin(u, conferences[code])
    THEN [error |-> "ACCESS_DENIED", polls |-> polls]
    ELSE [error |-> "none",
          polls |-> MapSet(polls, Cardinality(DOMAIN polls) + 1,
                           NewPoll(conferences[code].id, trim(question),
                                   [k \in DOMAIN optionTexts |-> trim(optionTexts[k])]))]

\* revokeConferenceAdmin of conference.service: only a main admin, on a known
\* conference, for an identity that is in its admin list
revokeConferenceAdmin(u, code, targetTelegramId) ==
    LET targets == IF code \in DOMAIN conferences
                   THEN {k \in conferences[code].admins : NatText(k[1]) = targetTelegramId}
                   ELSE {}
    IN  IF ~userIsMainAdmin(u)
        THEN [error |-> "ACCESS_DENIED", conferences |-> conferences]
        ELSE IF code \notin DOMAIN conferences
        THEN [error |-> "CONFERENCE_NOT_FOUND", conferences |-> conferences]
        ELSE IF targets = {}
        THEN [error |-> "TARGET_USER_NOT_ADMIN", conferences |-> conferences]
        ELSE [error |-> "none",
              conferences |-> [conferences EXCEPT ![code].admins = @ \ targets]]

\* assignConferenceAdmin({mainAdminUser, conferenceCode, targetTelegramId}); the
\* target is looked up by the telegram id as text
assignConferenceAdmin(u, code, targetTelegramId) ==
    LET targets == IF code \in DOMAIN conferences
                   THEN {k \in DOMAIN profiles :
                            NatText(k[1]) = targetTelegramId /\ k[2] = conferences[code].id}
                   ELSE {}
    IN  IF ~userIsMainAdmin(u)
        THEN [error |-> "ACCESS_DENIED", conferences |-> conferences]
        ELSE IF code \notin DOMAIN conferences
        THEN [error |-> "CONFERENCE_NOT_FOUND", conferences |-> conferences]
        ELSE IF targets = {}
        THEN [error |-> "TARGET_USER_NOT_FOUND", conferences |-> conferences]
        ELSE [error |-> "none",
              conferences |-> [conferences EXCEPT ![code].admins = @ \cup targets]]

\* slide.service setSlide({moderatorUser, conferenceCode, url, title})
setSlide(u, code, url, title) ==
    IF ~slideSchema(url, title, code)
    THEN [error |-> "VALIDATION_ERROR", conferences |-> conferences, events |-> events]
    ELSE IF trim(code) \notin DOMAIN conferences
    THEN [error |-> "CONFERENCE_NOT_FOUND", conferences |-> conferences, events |-> events]
    ELSE IF ~isConferenceAdmin(u, conferences[trim(code)])
    THEN [error |-> "ACCESS_DENIED", conferences |-> conferences, events |-> events]
    ELSE LET saved == [conferences EXCEPT
                          ![trim(code)].currentSlideUrl = url,
                          ![trim(code)].currentSlideTitle = trim(title)]
             emitted == emitToConference(events, saved[trim(code)].id, "slide-updated",
                            [url |-> saved[trim(code)].currentSlideUrl,
                             title |-> saved[trim(code)].currentSlideTitle])
         IN  [error |-> emitted.error, conferences |-> saved, events |-> emitted.events]

\* clearSlide without the call of assertConferenceAdmin
clearSlideUnchecked(u, code) ==
    IF code \notin DOMAIN conferences
    THEN [error |-> "CONFERENCE_NOT_FOUND", conferences |-> conferences, events |-> events]
    ELSE LET saved == [conferences EXCEPT
                          ![code].currentSlideUrl = Undefined,
                          ![code].currentSlideTitle = Undefined]
             emitted == emitToConference(events, saved[code].id, "slide-updated",
                            [url |-> Null, title |-> Null])
         IN  [error |-> emitted.error, conferences |-> saved, events |-> emitted.events]

\* clearSlide({moderatorUser, conferenceCode})
clearSlide(u, code) ==
    IF code \notin DOMAIN conferences
    THEN [error |-> "CONFERENCE_NOT_FOUND", conferences |-> conferences, events |-> events]
    ELSE IF ~isConferenceAdmin(u, conferences[code])
    THEN [error |-> "ACCESS_DENIED", conferences |-> conferences, events |-> events]
    ELSE LET saved == [conferences EXCEPT
                          ![code].currentSlideUrl = Undefined,
                          ![code].currentSlideTitle = Undefined]
             emitted == emitToConference(events, saved[code].id, "slide-updated",
                            [url |-> Null, title |-> Null])
         IN  [error |-> emitted.error, conferences |-> saved, events |-> emitted.events]

\* String.prototype.includes
includes(t, sub) ==
    \E i \in 0..(Len(t) - Len(sub)) : SubSeq(t, i + 1, i + Len(sub)) = sub

\* the keys of S in the order find() returns them: by telegram id
RECURSIVE InOrder(_)
InOrder(S) ==
    IF S = {} THEN <<>>
    ELSE LET first == CHOOSE k \in S : \A other \in S : k[1] <= other[1]
         IN  <<first>> \o InOrder(S \ {first})

SearchRoles == {<<"s","p","e","a","k","e","r">>, <<"i","n","v","e","s","t","o","r">>,
                <<"p","a","r","t","i","c","i","p","a","n","t">>,
                <<"o","r","g","a","n","i","z","e","r">>}

\* the role names as the profiles store them
RoleName(role) ==
    IF role = <<"s","p","e","a","k","e","r">> THEN "speaker"
    ELSE IF role = <<"i","n","v","e","s","t","o","r">> THEN "investor"
    ELSE IF role = <<"p","a","r","t","i","c","i","p","a","n","t">> THEN "participant"
    ELSE "organizer"

\* limit: 20 of the find_participants branch
SearchLimit == 20

\* searchProfiles({conferenceCode, role, text, limit}): the result is the
\* sequence of the keys of the profiles found
searchProfiles(code, role, text, limit) ==
    IF code \notin DOMAIN conferences
    THEN [error |-> "CONFERENCE_NOT_FOUND", profiles |-> <<>>]
    ELSE LET matching == {k \in DOMAIN profiles :
                            /\ k[2] = conferences[code].id
                            /\ profiles[k].isActive
                            /\ profiles[k].onboardingCompleted
                            /\ role # Undefined => RoleName(role) \in profiles[k].roles}
             found == InOrder(matching)
             limited == SubSeq(found, 1, IF Len(found) < limit THEN Len(found) ELSE limit)
             fields(k) == UNION {Range(profiles[k][f]) :
                                   f \in {"interests", "offerings", "lookingFor"}
                                          \cap DOMAIN profiles[k]}
             hit(k) == \E val \in fields(k) : includes(toLowerCase(val), toLowerCase(trim(text)))
         IN  IF text # Undefined /\ trim(text) # <<>>
             THEN [error |-> "none", profiles |-> SelectSeq(limited, hit)]
             ELSE [error |-> "none", profiles |-> limited]

-----------------------------------------------------------------------------
(* The dialog session maps of bot.js and the handlers that touch them *)

\* at most this many identities are in a dialog at once
MaxDialogs == 1

\* the two Maps as one value, so that a handler's effect on them is a function
Maps == [userState |-> userState, onboardingState |-> onboardingState]

\* the collections, and with them the events published so far
Domain == [conferences |-> conferences, profiles |-> profiles,
           questions |-> questions, polls |-> polls, events |-> events]

\* clearUserState with the onboardingState.delete left out
\* clearUserState emptying both maps for every user
clearUserStateOfAll(m, u) == [userState |-> EmptyMap, onboardingState |-> EmptyMap]

clearUserStateOnly(m, u) == [m EXCEPT !.userState = MapDelete(@, u)]

\* function clearUserState(telegramId)
clearUserState(m, u) ==
    [userState |-> MapDelete(m.userState, u),
     onboardingState |-> MapDelete(m.onboardingState, u)]

\* userState.set(ctx.from.id, state)
setUserState(m, u, state) == [m EXCEPT !.userState = MapSet(@, u, state)]

\* onboardingState.set(ctx.from.id, state)
setOnboardingState(m, u, state) == [m EXCEPT !.onboardingState = MapSet(@, u, state)]

\* a catch block that would also end the flow
catchAndClear(m, u) == clearUserState(m, u)

\* a catch block that replies with the error and re-prompts: it clears nothing
catchReplyOnly(m, u) == m

HasSession(u) == u \in DOMAIN userState \/ u \in DOMAIN onboardingState

\* userState.get(id).flow and .step; "undefined" without a state or a step
Flow(u) == IF u \in DOMAIN userState THEN userState[u].flow ELSE "undefined"
Step(u) ==
    IF u \in DOMAIN userState /\ "step" \in DOMAIN userState[u]
    THEN userState[u].step ELSE "undefined"

\* the dialog a handler finds its user in: the flow of the userState entry,
\* else "onboarding" for an onboardingState entry alone, else "undefined"
Was(u) ==
    IF u \in DOMAIN userState THEN userState[u].flow
    ELSE IF u \in DOMAIN onboardingState THEN "onboarding" ELSE "undefined"

Call(op, u, error) == [op |-> op, user |-> u, error |-> error]

\* an identity may act while the number of identities in a dialog stays in bound
Turn(u) == Cardinality({v \in Users : HasSession(v)} \cup {u}) <= dialogs

\* a dialog is started only while the run may still perform a mutation
MayStart == mutations < MaxMutations

\* the end of a handler: the maps m, the collections d, the answer and the
\* service call it made; a handler that changed a collection counts as a mutation
Handled(u, m, kind, c, d) ==
    /\ userState' = m.userState
    /\ onboardingState' = m.onboardingState
    /\ conferences' = d.conferences
    /\ profiles' = d.profiles
    /\ questions' = d.questions
    /\ polls' = d.polls
    /\ reply' = [user |-> u, kind |-> kind, was |-> Was(u)]
    /\ call' = c
    /\ IF d = Domain THEN mutations' = mutations
       ELSE mutations < MaxMutations /\ mutations' = mutations + 1
    /\ inflight' = inflight
    /\ events' = d.events
    /\ UNCHANGED <<ioInstance, profileDocs, match, dialogs>>

\* the shape shared by the menu handlers that list the user's conferences:
\* optionally clearUserState, then either "no conferences" or, when the handler
\* starts a selection, userState.set({flow, step: 'select_conference'})
ConferenceMenu(u, clears, flow) ==
    /\ Turn(u)
    /\ (flow # "" /\ listConferencesForUser(u) # {}) => MayStart
    /\ LET m == IF clears THEN clearUserState(Maps, u) ELSE Maps
       IN  IF listConferencesForUser(u) = {}
           THEN Handled(u, m, "no_conferences", Call("listConferencesForUser", u, "none"), Domain)
           ELSE Handled(u,
                        IF flow = "" THEN m
                        ELSE setUserState(m, u, [flow |-> flow, step |-> "select_conference"]),
                        "list", Call("listConferencesForUser", u, "none"), Domain)

\* the shape shared by the handlers that clear the session and show a menu
ClearingMenu(u, kind) ==
    /\ Turn(u)
    /\ Handled(u, clearUserState(Maps, u), kind, NoCall, Domain)

\* the shape shared by the handlers that clear the session and start a text flow
StartFlow(u, state) ==
    /\ Turn(u)
    /\ MayStart
    /\ Handled(u, setUserState(clearUserState(Maps, u), u, state), "prompt", NoCall, Domain)

\* callback parameters: the conference codes there are and one that is gone
GoneCode == <<"g","o","n","e">>
CallbackCodes == DOMAIN conferences \cup {GoneCode}

\* ask:speaker target ids: 'all' or a speaker's profile id
AllTarget == <<"all">>
TargetIds == {AllTarget} \cup {k \in DOMAIN profiles : "speaker" \in profiles[k].roles}

\* bot.start
Start(u) == ClearingMenu(u, "welcome")

\* bot.command('cancel')
CommandCancel(u) == ClearingMenu(u, "cancelled")

MenuMain(u) == ClearingMenu(u, "menu")

MenuMyConferences(u) == ConferenceMenu(u, TRUE, "")

MenuJoinConference(u) == StartFlow(u, [flow |-> "join_conference"])

\* bot.action('menu:onboarding') and bot.hears of the profile label
StartOnboarding(u) ==
    /\ Turn(u)
    /\ MayStart
    /\ Handled(u, setOnboardingState(clearUserState(Maps, u), u, [step |-> 1, data |-> <<>>]),
               "prompt", NoCall, Domain)

MenuOnboarding(u) == StartOnboarding(u)

MenuFindParticipants(u) == ConferenceMenu(u, TRUE, "find_participants")

\* find:conf and the first ask:conf: a continuation of the flow that is
\* already active keeps the maps, anything else clears them first
ContinueFlow(u, flow, state) ==
    /\ Turn(u)
    /\ MayStart
    /\ Handled(u,
               IF Flow(u) = flow THEN setUserState(Maps, u, state)
               ELSE setUserState(clearUserState(Maps, u), u, state),
               "prompt", NoCall, Domain)

FindConf(u, conferenceCode) ==
    ContinueFlow(u, "find_participants",
                 [flow |-> "find_participants", conferenceCode |-> conferenceCode,
                  step |-> "enter_query"])

MenuAskQuestion(u) == ConferenceMenu(u, TRUE, "ask_question")

\* the first bot.action(/^ask:conf:(.+)$/); the second registration never runs
\* ask:conf is registered twice (bot.js 253 and 1527); the first registration
\* never calls next(), so it answers every ask:conf token and the second one,
\* which would list the speakers, is never run
AskConf(u, conferenceCode) ==
    ContinueFlow(u, "ask_question",
                 [flow |-> "ask_question", conferenceCode |-> conferenceCode,
                  step |-> "enter_question"])

MenuPolls(u) == ConferenceMenu(u, TRUE, "polls")

MenuSpeaker(u) == ClearingMenu(u, "menu")

MenuConferenceAdmin(u) == ClearingMenu(u, "menu")

MenuAdminConferences(u) == ConferenceMenu(u, FALSE, "")

\* admin:conf, admin:polls, admin:slides, speaker:polls:conf: clearUserState,
\* then the conference's page or "not found"
ConferencePage(u, conferenceCode) ==
    ClearingMenu(u, IF conferenceCode \in DOMAIN conferences THEN "list" ELSE "error")

AdminConf(u, conferenceCode) == ConferencePage(u, conferenceCode)

AdminPolls(u, conferenceCode) == ConferencePage(u, conferenceCode)

AdminCreatePoll(u, conferenceCode) ==
    StartFlow(u, [flow |-> "create_poll", conferenceCode |-> conferenceCode,
                  step |-> "enter_question"])

PollEdit(u, pollId) ==
    StartFlow(u, [flow |-> "edit_poll", pollId |-> pollId, step |-> "enter_question"])

MenuAdminPolls(u) == ConferenceMenu(u, TRUE, "")

MenuAdminSlides(u) == ConferenceMenu(u, TRUE, "")

MenuAdminModerateQuestions(u) == ConferenceMenu(u, TRUE, "moderate_questions")

AdminSlides(u, conferenceCode) == ConferencePage(u, conferenceCode)

AdminSetSlide(u, conferenceCode) ==
    StartFlow(u, [flow |-> "set_slide", conferenceCode |-> conferenceCode,
                  step |-> "enter_url"])

MenuMainAdmin(u) == ClearingMenu(u, "menu")

MenuAdminCreateConference(u) ==
    StartFlow(u, [flow |-> "create_conference", step |-> "enter_title"])

\* menu:admin_manage_admins, admin:manage_admins:conf, admin:revoke_admin:
\* clearUserState, then "access denied" unless the user is a main admin
MainAdminPage(u, found) ==
    ClearingMenu(u, IF ~userIsMainAdmin(u) THEN "denied"
                    ELSE IF found THEN "list" ELSE "error")

MenuAdminManageAdmins(u) == MainAdminPage(u, conferences # EmptyMap)

AdminManageAdminsConf(u, conferenceCode) ==
    MainAdminPage(u, conferenceCode \in DOMAIN conferences)

AdminAssignAdmin(u, conferenceCode) ==
    StartFlow(u, [flow |-> "assign_admin", conferenceCode |-> conferenceCode,
                  step |-> "enter_telegram_id"])

AdminRevokeAdmin(u, conferenceCode) ==
    MainAdminPage(u, /\ conferenceCode \in DOMAIN conferences
                     /\ conferences[conferenceCode].admins # {})

\* admin:revoke_admin_confirm: the denial comes before the service call, and
\* the handler leaves the sessions as they are
AdminRevokeAdminConfirm(u, conferenceCode, targetTelegramId) ==
    LET r == revokeConferenceAdmin(u, conferenceCode, targetTelegramId)
    IN  /\ Turn(u)
        /\ IF ~userIsMainAdmin(u)
           THEN Handled(u, Maps, "denied", NoCall, Domain)
           ELSE Handled(u, Maps, IF r.error = "none" THEN "done" ELSE "error",
                        Call("revokeConferenceAdmin", u, r.error),
                        [Domain EXCEPT !.conferences = r.conferences])

MenuAdminAllConferences(u) == ConferenceMenu(u, FALSE, "")

MenuAdminStats(u) ==
    /\ Turn(u)
    /\ Handled(u, Maps, "menu", NoCall, Domain)

HearsMyConferences(u) == ConferenceMenu(u, FALSE, "")

HearsJoin(u) == StartFlow(u, [flow |-> "join_conference"])

HearsProfile(u) == StartOnboarding(u)

HearsFindParticipants(u) == ConferenceMenu(u, FALSE, "find_participants")

HearsAskQuestion(u) == ConferenceMenu(u, FALSE, "ask_question")

HearsPolls(u) == ConferenceMenu(u, FALSE, "polls")

AdminEditConf(u, conferenceCode) ==
    StartFlow(u, [flow |-> "edit_conference", conferenceCode |-> conferenceCode,
                  step |-> "enter_title"])

MenuAdminParticipants(u) == ConferenceMenu(u, FALSE, "manage_participants")

MenuSpeakerQuestions(u) == ConferenceMenu(u, TRUE, "speaker_questions")

SpeakerAnswer(u, conferenceCode, questionId) ==
    StartFlow(u, [flow |-> "answer_question", conferenceCode |-> conferenceCode,
                  questionId |-> questionId, step |-> "enter_answer"])

MenuSpeakerPolls(u) == ConferenceMenu(u, TRUE, "speaker_polls")

SpeakerPollsConf(u, conferenceCode) == ConferencePage(u, conferenceCode)

SpeakerCreatePoll(u, conferenceCode) ==
    StartFlow(u, [flow |-> "create_poll", conferenceCode |-> conferenceCode,
                  step |-> "enter_question"])

AskSpeaker(u, conferenceCode, targetId) ==
    StartFlow(u, [flow |-> "ask_question", conferenceCode |-> conferenceCode,
                  step |-> "enter_question",
                  targetSpeaker |-> IF targetId = AllTarget THEN Undefined ELSE targetId])

-----------------------------------------------------------------------------
(* bot.on('text') *)

Slash == <<"/">>
Dash == <<"-">>
CancelWord == <<"c","a","n","c","e","l">>
OtmenaWord == <<"ru_o","ru_t","ru_m","ru_e","ru_n","ru_a">>

\* the cancel test with the toLowerCase left out
IsCancelTokenExact(text) == text \in {OtmenaWord, CancelWord, Slash \o CancelWord}

\* the cancel test of bot.on('text'), on the trimmed text
IsCancelToken(text) ==
    toLowerCase(text) \in {OtmenaWord, CancelWord, Slash \o CancelWord}

\* text.trim().split(/\s+/)
splitWhitespace(text) == IF trim(text) = <<>> THEN << <<>> >> ELSE spaceWords(trim(text))

\* the list typed at onboarding steps 2 to 4: empty for "-" and for nothing
optionalList(text) ==
    IF trim(text) # Dash /\ trim(text) # <<>> THEN commaList(text) ELSE <<>>

\* a validation failure that would reset the dialog
ValidationFailedAndReset(u, m) ==
    Handled(u, clearUserState(m, u), "error", Call("validate", u, "VALIDATION_ERROR"), Domain)

ValidationFailed(u, m) ==
    Handled(u, catchReplyOnly(m, u), "error", Call("validate", u, "VALIDATION_ERROR"), Domain)

\* the object validated at onboarding step 1: firstName, and lastName when
\* there is one
nameData(text) ==
    LET parts == splitWhitespace(text)
        lastName == join(Tail(parts), <<" ">>)
    IN  IF lastName # <<>> THEN [firstName |-> parts[1], lastName |-> lastName]
        ELSE [firstName |-> parts[1]]

\* onboarding step 1: first and last name
OnboardingName(u, text) ==
    LET onboarding == onboardingState[u]
        parts == splitWhitespace(text)
        firstName == parts[1]
        lastName == join(Tail(parts), <<" ">>)
    IN  IF ~userProfileSchema(nameData(text)) THEN ValidationFailed(u, Maps)
        ELSE Handled(u,
                 setOnboardingState(Maps, u,
                     [step |-> 2,
                      data |-> MapSet(MapSet(onboarding.data, "firstName", firstName),
                                      "lastName", lastName)]),
                 "prompt", NoCall, Domain)

\* onboarding steps 2, 3, 4 going two steps on at once
OnboardingListSkipping(u, text, key) ==
    LET onboarding == onboardingState[u]
        list == optionalList(text)
    IN  IF list # <<>> /\ ~userProfileSchema([k \in {key} |-> list])
        THEN ValidationFailed(u, Maps)
        ELSE Handled(u,
                 setOnboardingState(Maps, u,
                     [step |-> onboarding.step + 2,
                      data |-> IF list # <<>> THEN MapSet(onboarding.data, key, list)
                               ELSE onboarding.data]),
                 "prompt", NoCall, Domain)

\* onboarding steps 2, 3, 4: an optional comma-separated list stored under key
OnboardingList(u, text, key) ==
    LET onboarding == onboardingState[u]
        list == optionalList(text)
    IN  IF list # <<>> /\ ~userProfileSchema([k \in {key} |-> list])
        THEN ValidationFailed(u, Maps)
        ELSE Handled(u,
                 setOnboardingState(Maps, u,
                     [step |-> onboarding.step + 1,
                      data |-> IF list # <<>> THEN MapSet(onboarding.data, key, list)
                               ELSE onboarding.data]),
                 "prompt", NoCall, Domain)

\* onboarding step 5: joinConference, then upsertProfileForConference
OnboardingCode(u, text) ==
    LET onboarding == onboardingState[u]
        code == trim(text)
        joined == joinConference(u, code)
    IN  IF code = <<>> THEN Handled(u, Maps, "prompt", NoCall, Domain)
        ELSE IF joined.error # "none"
        THEN Handled(u, catchReplyOnly(Maps, u), "error",
                     Call("joinConference", u, joined.error), Domain)
        ELSE LET saved == upsertProfileForConference(joined.profiles, u,
                                                     conferences[code].id, onboarding.data)
             IN  IF saved.error # "none"
                 THEN Handled(u, catchReplyOnly(Maps, u), "error",
                              Call("upsertProfileForConference", u, saved.error),
                              [Domain EXCEPT !.profiles = joined.profiles])
                 ELSE Handled(u, clearUserState(Maps, u), "done",
                              Call("upsertProfileForConference", u, "none"),
                              [Domain EXCEPT !.profiles = saved.profiles])

\* the onboarding branch
OnboardingText(u, text) ==
    LET step == onboardingState[u].step
    IN  IF step = 1 THEN OnboardingName(u, text)
        ELSE IF step = 2 THEN OnboardingList(u, text, "interests")
        ELSE IF step = 3 THEN OnboardingList(u, text, "offerings")
        ELSE IF step = 4 THEN OnboardingList(u, text, "lookingFor")
        ELSE IF step = 5 THEN OnboardingCode(u, text)
        ELSE Handled(u, clearUserState(Maps, u), "reset", NoCall, Domain)

\* a terminal step that would store the result and keep the session
TerminalWithoutClear(u, op, error, d, onError) ==
    IF error = "none"
    THEN Handled(u, Maps, "done", Call(op, u, "none"), d)
    ELSE Handled(u, onError, "error", Call(op, u, error), Domain)

\* the shape shared by the terminal steps: on success the collections of the
\* result are stored, clearUserState, reply; on an error the catch block runs
Terminal(u, op, error, d, onError) ==
    IF error = "none"
    THEN Handled(u, clearUserState(Maps, u), "done", Call(op, u, "none"), d)
    ELSE Handled(u, onError, "error", Call(op, u, error), Domain)

JoinConferenceText(u, text) ==
    LET r == joinConference(u, text)
    IN  Terminal(u, "joinConference", r.error, [Domain EXCEPT !.profiles = r.profiles],
                 catchReplyOnly(Maps, u))

\* the role filter the find_participants branch takes from the text: its first
\* word when that is a role name
QueryRole(text) ==
    LET parts == filterBoolean(split(text, " "))
    IN  IF parts # <<>> /\ toLowerCase(parts[1]) \in SearchRoles
        THEN toLowerCase(parts[1]) ELSE Undefined

\* the search text it takes: the words after the role, or the whole text
QueryText(text) ==
    LET parts == filterBoolean(split(text, " "))
    IN  IF parts = <<>> THEN Undefined
        ELSE IF QueryRole(text) # Undefined THEN join(Tail(parts), <<" ">>) ELSE text

FindParticipantsText(u, text) ==
    LET state == userState[u]
        r == searchProfiles(state.conferenceCode, QueryRole(text), QueryText(text),
                            SearchLimit)
    IN  Terminal(u, "searchProfiles", r.error, Domain, catchReplyOnly(Maps, u))

AskQuestionText(u, text) ==
    LET state == userState[u]
        r == askQuestion(u, state.conferenceCode, text, Field(state, "targetSpeaker"))
    IN  Terminal(u, "askQuestion", r.error, [Domain EXCEPT !.questions = r.questions],
                 catchReplyOnly(Maps, u))

AnswerQuestionText(u, text) ==
    LET state == userState[u]
        r == answerQuestion(u, state.conferenceCode, state.questionId, text)
    IN  Terminal(u, "answerQuestion", r.error, [Domain EXCEPT !.questions = r.questions],
                 catchReplyOnly(Maps, u))

EditConferenceTitleText(u, text) ==
    LET state == userState[u]
        title == IF trim(text) # Dash THEN trim(text) ELSE Undefined
    IN  Handled(u,
                setUserState(Maps, u,
                    [k \in (DOMAIN state) \cup {"title"} |->
                        IF k = "title" THEN title
                        ELSE IF k = "step" THEN "enter_description" ELSE state[k]]),
                "prompt", NoCall, Domain)

EditConferenceDescriptionText(u, text) ==
    LET state == userState[u]
        withTitle == IF state.title # Undefined /\ state.title # <<>>
                     THEN [k \in {"title"} |-> state.title] ELSE <<>>
        payload == IF trim(text) # Dash THEN MapSet(withTitle, "description", trim(text))
                   ELSE withTitle
        r == updateConference(u, state.conferenceCode, payload)
    IN  Terminal(u, "updateConference", r.error,
                 [Domain EXCEPT !.conferences = r.conferences], catchReplyOnly(Maps, u))

CreatePollQuestionText(u, text) ==
    LET state == userState[u]
    IN  Handled(u,
                setUserState(Maps, u,
                    [k \in (DOMAIN state) \cup {"question"} |->
                        IF k = "question" THEN text
                        ELSE IF k = "step" THEN "enter_options" ELSE state[k]]),
                "prompt", NoCall, Domain)

CreatePollOptionsText(u, text) ==
    LET state == userState[u]
        options == commaList(text)
        r == createPoll(u, state.conferenceCode, state.question, options)
    IN  IF Len(options) < 2
        THEN Handled(u, Maps, "invalid", NoCall, Domain)
        ELSE Terminal(u, "createPoll", r.error, [Domain EXCEPT !.polls = r.polls],
                      catchReplyOnly(Maps, u))

\* the edit_poll branch reads joinState, which is not defined anywhere: the
\* ReferenceError is caught and answered
EditPollText(u, text) ==
    Handled(u, catchReplyOnly(Maps, u), "error", Call("none", u, "ReferenceError"), Domain)

\* the assign_admin text branch without its main-admin check
AssignAdminTextAnyone(u, text) ==
    LET state == userState[u]
        telegramId == trim(text)
        r == assignConferenceAdmin(u, state.conferenceCode, telegramId)
    IN  IF ~isDigits(telegramId)
        THEN Handled(u, Maps, "invalid", NoCall, Domain)
        ELSE Terminal(u, "assignConferenceAdmin", r.error,
                      [Domain EXCEPT !.conferences = r.conferences], catchReplyOnly(Maps, u))

AssignAdminText(u, text) ==
    LET state == userState[u]
        telegramId == trim(text)
        r == assignConferenceAdmin(u, state.conferenceCode, telegramId)
    IN  IF ~userIsMainAdmin(u)
        THEN Handled(u, clearUserState(Maps, u), "denied", NoCall, Domain)
        ELSE IF ~isDigits(telegramId)
        THEN Handled(u, Maps, "invalid", NoCall, Domain)
        ELSE Terminal(u, "assignConferenceAdmin", r.error,
                      [Domain EXCEPT !.conferences = r.conferences], catchReplyOnly(Maps, u))

SetSlideText(u, text) ==
    LET state == userState[u]
        parts == filterBoolean(split(text, " "))
        url == IF parts = <<>> THEN Undefined ELSE parts[1]
        title == IF parts = <<>> THEN <<>> ELSE join(Tail(parts), <<" ">>)
        r == setSlide(u, state.conferenceCode, url, title)
        d == [Domain EXCEPT !.conferences = r.conferences, !.events = r.events]
    IN  IF r.error = TransportError
        THEN Handled(u, catchReplyOnly(Maps, u), "error", Call("setSlide", u, r.error), d)
        ELSE Terminal(u, "setSlide", r.error, d, catchReplyOnly(Maps, u))

CreateConferenceText(u, text) ==
    LET r == createConference(u, text, <<>>)
    IN  Terminal(u, "createConference", r.error,
                 [Domain EXCEPT !.conferences = r.conferences], catchReplyOnly(Maps, u))

\* the onboarding branch taken whenever there is an onboarding entry
OnboardingTurnAlways(u) == u \in DOMAIN onboardingState

\* if (onboarding && !state): the onboarding steps run only without a userState entry
OnboardingTurn(u) == u \in DOMAIN onboardingState /\ u \notin DOMAIN userState

\* the last lines of bot.on('text') without the clearUserState
FallThroughKeeping(u) == Handled(u, Maps, "reset", NoCall, Domain)

\* a state no branch matches: reply, then clearUserState
FallThrough(u) == Handled(u, clearUserState(Maps, u), "reset", NoCall, Domain)

\* bot.on('text'), for the raw message text t
OnText(u, t) ==
    /\ Turn(u)
    /\ LET text == trim(t)
           flow == Flow(u)
           step == Step(u)
       IN  IF startsWith(t, Slash)
           THEN Handled(u, Maps, "none", NoCall, Domain)
           ELSE IF IsCancelToken(text)
           THEN Handled(u, clearUserState(Maps, u), "cancelled", NoCall, Domain)
           ELSE IF u \notin DOMAIN userState /\ u \notin DOMAIN onboardingState
           THEN Handled(u, Maps, "guidance", NoCall, Domain)
           ELSE IF OnboardingTurn(u)
           THEN OnboardingText(u, text)
           ELSE IF flow = "join_conference" THEN JoinConferenceText(u, text)
           ELSE IF flow = "find_participants" /\ step = "enter_query"
           THEN FindParticipantsText(u, text)
           ELSE IF flow = "ask_question" /\ step = "enter_question"
           THEN AskQuestionText(u, text)
           ELSE IF flow = "answer_question" /\ step = "enter_answer"
           THEN AnswerQuestionText(u, text)
           ELSE IF flow = "edit_conference" /\ step = "enter_title"
           THEN EditConferenceTitleText(u, text)
           ELSE IF flow = "edit_conference" /\ step = "enter_description"
           THEN EditConferenceDescriptionText(u, text)
           ELSE IF flow = "create_poll" /\ step = "enter_question"
           THEN CreatePollQuestionText(u, text)
           ELSE IF flow = "create_poll" /\ step = "enter_options"
           THEN CreatePollOptionsText(u, text)
           ELSE IF flow = "edit_poll" /\ step = "enter_question"
           THEN EditPollText(u, text)
           ELSE IF flow = "assign_admin" /\ step = "enter_telegram_id"
           THEN AssignAdminText(u, text)
           ELSE IF flow = "set_slide" /\ step = "enter_url"
           THEN SetSlideText(u, text)
           ELSE IF flow = "create_conference" /\ step = "enter_title"
           THEN CreateConferenceText(u, text)
           ELSE FallThrough(u)

-----------------------------------------------------------------------------
(* Poll service: voteInPoll, and the vote:poll handler *)

\* parseInt(text, 10) of a callback parameter; NaN is written -1
RECURSIVE DigitsValue(_, _)
DigitsValue(t, acc) ==
    IF t = <<>> \/ Head(t) \notin Digits THEN acc
    ELSE DigitsValue(Tail(t),
            10 * acc + (CHOOSE d \in 0..9 : <<"0","1","2","3","4","5","6","7","8","9">>[d + 1] = Head(t)))

parseInt(t) == IF t = <<>> \/ Head(t) \notin Digits THEN -1 ELSE DigitsValue(t, 0)

HasVoted(poll, voter) == \E k \in DOMAIN poll.options : voter \in poll.options[k].voters

OptionIndex(poll, optionId) ==
    IF \E k \in DOMAIN poll.options : poll.options[k].id = optionId
    THEN CHOOSE k \in DOMAIN poll.options : poll.options[k].id = optionId
    ELSE 0

\* voteInPoll with the voter-absent condition left out of the update
voteInPollWithoutCondition(voter, pollId, optionId) ==
    IF pollId \notin DOMAIN polls \/ ~polls[pollId].isActive
    THEN [error |-> "POLL_NOT_FOUND", polls |-> polls]
    ELSE IF OptionIndex(polls[pollId], optionId) = 0
    THEN [error |-> "INVALID_OPTION", polls |-> polls]
    ELSE LET k == OptionIndex(polls[pollId], optionId)
         IN  [error |-> "none",
              polls |-> [polls EXCEPT ![pollId].options[k].voters = @ \cup {voter}]]

\* voteInPoll recording the vote before it fails with ALREADY_VOTED
voteInPollThenRefuse(voter, pollId, optionId) ==
    IF pollId \notin DOMAIN polls \/ ~polls[pollId].isActive
    THEN [error |-> "POLL_NOT_FOUND", polls |-> polls]
    ELSE IF OptionIndex(polls[pollId], optionId) = 0
    THEN [error |-> "INVALID_OPTION", polls |-> polls]
    ELSE LET k == OptionIndex(polls[pollId], optionId)
         IN  [error |-> IF HasVoted(polls[pollId], voter) THEN "ALREADY_VOTED" ELSE "none",
              polls |-> [polls EXCEPT ![pollId].options[k].voters = @ \cup {voter}]]

\* voteInPoll({telegramUser, pollId, optionId}): one conditional update that
\* records the voter on the option only if the poll is there and active, the
\* option exists and the voter is in no voter set of the poll
voteInPoll(voter, pollId, optionId) ==
    IF pollId \notin DOMAIN polls \/ ~polls[pollId].isActive
    THEN [error |-> "POLL_NOT_FOUND", polls |-> polls]
    ELSE IF OptionIndex(polls[pollId], optionId) = 0
    THEN [error |-> "INVALID_OPTION", polls |-> polls]
    ELSE IF HasVoted(polls[pollId], voter)
    THEN [error |-> "ALREADY_VOTED", polls |-> polls]
    ELSE LET k == OptionIndex(polls[pollId], optionId)
         IN  [error |-> "none",
              polls |-> [polls EXCEPT ![pollId].options[k].voters = @ \cup {voter}]]

\* the poll ids and option ids a vote button can carry: the polls there are
\* and one that is gone, the options there are and one past the last
VotePollIds == DOMAIN polls \cup {0}
VoteOptionTexts == {NatText(n) : n \in 0..NumOptions}

\* bot.action(/^vote:poll:(.+):(.+)$/) up to its await of voteInPoll
VotePollReceived(u, pollId, optionText) ==
    /\ BagCardinality(inflight) < MaxInFlight
    /\ inflight' = inflight (+) SetToBag({[user |-> u, pollId |-> pollId,
                                           optionId |-> parseInt(optionText)]})
    /\ UNCHANGED <<sessionVars, domainVars, reply, call, mutations, sideVars>>

\* bot.action(/^vote:poll:(.+):(.+)$/) from voteInPoll to its reply
VotePollHandled(a) ==
    /\ BagIn(a, inflight)
    /\ inflight' = inflight (-) SetToBag({a})
    /\ LET r == voteInPoll(a.user, a.pollId, a.optionId)
       IN  /\ polls' = r.polls
           /\ call' = [op |-> "voteInPoll", user |-> a.user, error |-> r.error]
           /\ reply' = [user |-> a.user,
                        kind |-> IF r.error = "none" THEN "vote_counted"
                                 ELSE IF r.error \in {"ALREADY_VOTED", "VOTE_FAILED"}
                                      THEN "already_voted"
                                      ELSE "vote_failed",
                        was |-> "undefined"]
    /\ UNCHANGED <<sessionVars, conferences, profiles, questions, mutations, sideVars>>

\* deactivatePoll, from bot.action(/^poll:deactivate:(.+)$/)
PollDeactivate(u, pollId) ==
    /\ pollId \in DOMAIN polls
    /\ polls[pollId].isActive
    /\ polls' = [polls EXCEPT ![pollId].isActive = FALSE]
    /\ call' = [op |-> "deactivatePoll", user |-> u, error |-> "none"]
    /\ reply' = [user |-> u, kind |-> "poll_deactivated", was |-> "undefined"]
    /\ UNCHANGED <<sessionVars, conferences, profiles, questions, inflight, mutations, sideVars>>

InitVote ==
    /\ userState = EmptyMap
    /\ onboardingState = EmptyMap
    /\ conferences = EmptyMap
    /\ profiles = EmptyMap
    /\ questions = EmptyMap
    /\ polls = [p \in {1} |->
                  NewPoll(1, <<"L","u","n","c","h","?">>,
                          [k \in 1..NumOptions |-> <<"o">> \o NatText(k)])]
    /\ reply = NoReply
    /\ call = NoCall
    /\ inflight = EmptyBag
    /\ mutations = 0
    /\ events = <<>>
    /\ ioInstance = "io"
    /\ profileDocs = EmptyMap
    /\ match = NoMatch
    /\ dialogs = MaxDialogs

NextVote ==
    \/ \E u \in Users, p \in VotePollIds, o \in VoteOptionTexts : VotePollReceived(u, p, o)
    \/ \E a \in BagToSet(inflight) : VotePollHandled(a)
    \/ \E u \in Users, p \in DOMAIN polls : PollDeactivate(u, p)

SpecVote == InitVote /\ [][NextVote]_vars

VotedOnce(p, v) ==
    Cardinality({k \in DOMAIN polls[p].options : v \in polls[p].options[k].voters}) <= 1

\* C1: whatever vote attempts are made and however they interleave, no voter
\* is in the voter set of two options of one poll, and an attempt on an option
\* of an active poll by a voter who has already voted in it fails with
\* ALREADY_VOTED and records nothing.
C1_ExactlyOneVote ==
    /\ [](\A p \in DOMAIN polls : \A v \in Users : VotedOnce(p, v))
    /\ [][\A a \in BagToSet(inflight) :
            ( /\ VotePollHandled(a)
              /\ a.pollId \in DOMAIN polls
              /\ polls[a.pollId].isActive
              /\ OptionIndex(polls[a.pollId], a.optionId) # 0
              /\ HasVoted(polls[a.pollId], a.user) )
            => (call'.error = "ALREADY_VOTED" /\ polls' = polls)]_vars

\* a voter is recorded on an option, a later attempt of theirs has just been
\* refused, and another attempt of theirs is still in flight
C1_Witness ==
    \E v \in Users :
        /\ HasVoted(polls[1], v)
        /\ call = [op |-> "voteInPoll", user |-> v, error |-> "ALREADY_VOTED"]
        /\ \E a \in BagToSet(inflight) : a.user = v /\ a.pollId = 1

-----------------------------------------------------------------------------
(* The dialog runs: every handler that reads or writes the session maps *)

StartCommand == <<"/","s","t","a","r","t">>
CancelCommand == Slash \o CancelWord

\* the reply-keyboard labels (getReplyKeyboard), each one symbol
KbMyConferences == <<"[kb:my_conferences]">>
KbJoin == <<"[kb:join]">>
KbProfile == <<"[kb:profile]">>
KbFindParticipants == <<"[kb:find_participants]">>
KbAskQuestion == <<"[kb:ask_question]">>
KbPolls == <<"[kb:polls]">>

KeyboardLabels == {KbMyConferences, KbJoin, KbProfile, KbFindParticipants,
                   KbAskQuestion, KbPolls}

\* a text whose first word is the command /name
IsCommand(t, command) == t = command \/ startsWith(t, command \o <<" ">>)

\* texts that bot.start, bot.command or bot.hears take before bot.on('text')
IsRegistered(t) ==
    IsCommand(t, StartCommand) \/ IsCommand(t, CancelCommand) \/ t \in KeyboardLabels

DevCode == <<"d","e","v">>

\* the free texts of the runs
Texts ==
    { <<" ","C","a","n","c","e","l">>,
      <<"RU_O","ru_t","ru_m","ru_e","ru_n","ru_a"," ">>,
      <<" ","/","c","a","n","c","e","l">>,
      Dash,
      DevCode,
      <<"7">>,
      <<"h","t","t","p",":","/","/","x"," ","a",",","b">>,
      <<"/","j","o","i","n"," ","d","e","v">> }

InboundTexts == Texts \cup KeyboardLabels \cup {StartCommand, CancelCommand}

\* an inbound text message, through the middleware in registration order
TextMessage(u, t) ==
    \/ IsCommand(t, StartCommand) /\ Start(u)
    \/ IsCommand(t, CancelCommand) /\ CommandCancel(u)
    \/ t = KbMyConferences /\ HearsMyConferences(u)
    \/ t = KbJoin /\ HearsJoin(u)
    \/ t = KbProfile /\ HearsProfile(u)
    \/ t = KbFindParticipants /\ HearsFindParticipants(u)
    \/ t = KbAskQuestion /\ HearsAskQuestion(u)
    \/ t = KbPolls /\ HearsPolls(u)
    \/ ~IsRegistered(t) /\ OnText(u, t)

\* a callback query, to the first handler registered for its data
CallbackQuery(u) ==
    \/ MenuMain(u)
    \/ MenuMyConferences(u)
    \/ MenuJoinConference(u)
    \/ MenuOnboarding(u)
    \/ MenuFindParticipants(u)
    \/ \E c \in CallbackCodes : FindConf(u, c)
    \/ MenuAskQuestion(u)
    \/ \E c \in CallbackCodes : AskConf(u, c)
    \/ MenuPolls(u)
    \/ MenuSpeaker(u)
    \/ MenuConferenceAdmin(u)
    \/ MenuAdminConferences(u)
    \/ \E c \in CallbackCodes : AdminConf(u, c)
    \/ \E c \in CallbackCodes : AdminPolls(u, c)
    \/ \E c \in CallbackCodes : AdminCreatePoll(u, c)
    \/ \E p \in DOMAIN polls : PollEdit(u, p)
    \/ MenuAdminPolls(u)
    \/ MenuAdminSlides(u)
    \/ MenuAdminModerateQuestions(u)
    \/ \E c \in CallbackCodes : AdminSlides(u, c)
    \/ \E c \in CallbackCodes : AdminSetSlide(u, c)
    \/ MenuMainAdmin(u)
    \/ MenuAdminCreateConference(u)
    \/ MenuAdminManageAdmins(u)
    \/ \E c \in CallbackCodes : AdminManageAdminsConf(u, c)
    \/ \E c \in CallbackCodes : AdminAssignAdmin(u, c)
    \/ \E c \in CallbackCodes : AdminRevokeAdmin(u, c)
    \/ MenuAdminAllConferences(u)
    \/ MenuAdminStats(u)
    \/ \E c \in CallbackCodes : AdminEditConf(u, c)
    \/ MenuAdminParticipants(u)
    \/ MenuSpeakerQuestions(u)
    \/ \E c \in CallbackCodes, q \in DOMAIN questions : SpeakerAnswer(u, c, q)
    \/ MenuSpeakerPolls(u)
    \/ \E c \in CallbackCodes : SpeakerPollsConf(u, c)
    \/ \E c \in CallbackCodes : SpeakerCreatePoll(u, c)
    \/ \E c \in CallbackCodes, target \in TargetIds : AskSpeaker(u, c, target)

InitFlow ==
    /\ userState = EmptyMap
    /\ onboardingState = EmptyMap
    /\ conferences = [c \in {DevCode} |->
                         NewConference(1, <<"D","e","v"," ","D","a","y">>, <<>>)]
    /\ profiles = [k \in {ProfileKey(7, 1)} |->
                      [NewProfile({"participant", "speaker"}) EXCEPT !.onboardingCompleted = TRUE]]
    /\ questions = [q \in {1, 2} |->
                       [NewQuestion(1, ProfileKey(7, 1), <<"W","h","y","?">>, Undefined)
                           EXCEPT !.status = IF q = 1 THEN "approved" ELSE "pending"]]
    /\ polls = [p \in {1} |->
                   NewPoll(1, <<"L","u","n","c","h","?">>,
                           [k \in 1..NumOptions |-> <<"o">> \o NatText(k)])]
    /\ reply = NoReply
    /\ call = NoCall
    /\ inflight = EmptyBag
    /\ mutations = 0
    /\ events = <<>>
    /\ ioInstance = "io"
    /\ profileDocs = EmptyMap
    /\ match = NoMatch
    /\ dialogs = MaxDialogs

NextFlow ==
    \/ \E u \in Users, t \in InboundTexts : TextMessage(u, t)
    \/ \E u \in Users : CallbackQuery(u)

SpecFlow == InitFlow /\ [][NextFlow]_vars

-----------------------------------------------------------------------------
(* Properties of the dialog runs *)

\* a text that reaches the flow branches of bot.on('text')
IsFreeText(t) ==
    /\ ~IsRegistered(t)
    /\ ~startsWith(t, Slash)
    /\ ~IsCancelToken(trim(t))

\* the guidance answer of the no-state branch, which consumes nothing
GuidanceOnly(u) ==
    /\ reply'.user = u
    /\ reply'.kind = "guidance"
    /\ call' = NoCall
    /\ UNCHANGED <<sessionVars, domainVars>>

\* C2: no identity ever has an entry in the flow-state map and an entry in the
\* onboarding map at once: a handler that starts a flow leaves only that
\* flow's session for the identity.
C2_SingleSession ==
    \A u \in Users : ~(u \in DOMAIN userState /\ u \in DOMAIN onboardingState)

\* C3: after a cancel (the text "cancel" or its Russian word in any case and
\* with surrounding blanks, or the /cancel command) the identity has no entry
\* in either map, and a free text the identity sends next gets the guidance
\* answer and changes neither the maps nor the collections.
C3_CancelClears ==
    /\ [](\A u \in Users :
            (reply.user = u /\ reply.kind = "cancelled") => ~HasSession(u))
    /\ [][\A u \in Users, t \in InboundTexts :
            ( /\ reply.user = u
              /\ reply.kind = "cancelled"
              /\ IsFreeText(t)
              /\ TextMessage(u, t) )
            => GuidanceOnly(u)]_vars

\* a cancel has just ended a dialog that was in progress
C3_Witness ==
    /\ reply.kind = "cancelled"
    /\ reply.was = "onboarding"
    /\ ~HasSession(reply.user)

\* C4: while an identity has no entry in either map, every inbound text that
\* is not a cancel token, not a registered command (/start, /cancel) and not
\* a reply-keyboard label is answered with the guidance answer, starts no
\* session and makes no service call.
C4_NoSessionGuidance ==
    [][\A u \in Users, t \in InboundTexts :
          ( /\ ~HasSession(u)
            /\ ~IsRegistered(t)
            /\ ~IsCancelToken(trim(t))
            /\ TextMessage(u, t) )
          => GuidanceOnly(u)]_vars

\* the handlers that navigate to a menu and start no flow
MenuNavigation(u) ==
    \/ MenuMain(u)
    \/ MenuMyConferences(u)
    \/ MenuSpeaker(u)
    \/ MenuConferenceAdmin(u)
    \/ MenuAdminConferences(u)
    \/ MenuAdminPolls(u)
    \/ MenuAdminSlides(u)
    \/ MenuMainAdmin(u)
    \/ MenuAdminManageAdmins(u)
    \/ MenuAdminAllConferences(u)
    \/ MenuAdminStats(u)
    \/ HearsMyConferences(u)

\* C5: after a menu navigation that starts no flow (a menu:* action or the
\* conferences entry of the reply keyboard) the identity has no entry in
\* either map.
C5_MenuClears ==
    [][\A u \in Users : MenuNavigation(u) => ~HasSession(u)']_vars

\* what the terminal step of the dialog of u has stored, for the text t
Performed(u, t) ==
    LET text == trim(t)
        state == userState[u]
        flow == Was(u)
    IN  IF flow = "onboarding"
        THEN /\ text \in DOMAIN conferences
             /\ LET key == ProfileKey(u, conferences[text].id)
                    data == onboardingState[u].data
                IN  /\ key \in DOMAIN profiles'
                    /\ profiles'[key].onboardingCompleted
                    /\ \A f \in DOMAIN data : profiles'[key][f] = data[f]
        ELSE IF flow = "join_conference"
        THEN /\ text \in DOMAIN conferences
             /\ ProfileKey(u, conferences[text].id) \in DOMAIN profiles'
        ELSE IF flow = "find_participants"
        THEN UNCHANGED domainVars
        ELSE IF flow = "ask_question"
        THEN \E q \in DOMAIN questions' \ DOMAIN questions :
                /\ questions'[q].text = text
                /\ questions'[q].status = "pending"
                /\ questions'[q].conference = conferences[state.conferenceCode].id
        ELSE IF flow = "answer_question"
        THEN /\ questions'[state.questionId].isAnswered
             /\ questions'[state.questionId].answer = text
        ELSE IF flow = "edit_conference"
        THEN /\ text # Dash => conferences'[state.conferenceCode].description = text
             /\ state.title # Undefined => conferences'[state.conferenceCode].title = state.title
        ELSE IF flow = "create_poll"
        THEN \E p \in DOMAIN polls' \ DOMAIN polls :
                /\ polls'[p].question = trim(state.question)
                /\ polls'[p].isActive
                /\ Len(polls'[p].options) >= MIN_OPTIONS_COUNT
        ELSE IF flow = "assign_admin"
        THEN \E k \in conferences'[state.conferenceCode].admins : NatText(k[1]) = text
        ELSE IF flow = "set_slide"
        THEN conferences'[state.conferenceCode].currentSlideUrl = spaceWords(text)[1]
        ELSE IF flow = "create_conference"
        THEN \E c \in DOMAIN conferences' \ DOMAIN conferences :
                conferences'[c].title = text
        ELSE FALSE

\* C6: when the terminal step of a text flow succeeds, what the flow was for
\* is stored and the identity has no entry in either map afterwards; a free
\* text the identity sends next gets the guidance answer.
C6_TerminalSuccess ==
    /\ [][\A u \in Users, t \in InboundTexts :
            (reply'.user = u /\ reply'.kind = "done" /\ TextMessage(u, t))
            => (Performed(u, t) /\ ~HasSession(u)')]_vars
    /\ [][\A u \in Users, t \in InboundTexts :
            ( /\ reply.user = u
              /\ reply.kind = "done"
              /\ IsFreeText(t)
              /\ TextMessage(u, t) )
            => GuidanceOnly(u)]_vars

\* onboarding has just been completed: the profile is stored with the name
\* typed at step 1 and the identity has no session left
C6_Witness ==
    /\ reply.kind = "done"
    /\ reply.was = "onboarding"
    /\ call.op = "upsertProfileForConference"
    /\ ~HasSession(reply.user)
    /\ \E k \in DOMAIN profiles :
          /\ k[1] = reply.user
          /\ "firstName" \in DOMAIN profiles[k]
          /\ profiles[k].onboardingCompleted

\* the text t fails the validation of the step the dialog of u is at; with
\* anyone = FALSE the assign-admin case is that of a main admin
FailsValidation(u, t, anyone) ==
    LET text == trim(t)
        flow == Flow(u)
        step == Step(u)
    IN  /\ HasSession(u)
        /\ \/ /\ Was(u) = "onboarding"
              /\ \/ /\ onboardingState[u].step = 1
                    /\ ~userProfileSchema(nameData(text))
                 \/ /\ onboardingState[u].step = 2
                    /\ ~interestsSchema(optionalList(text))
                 \/ /\ onboardingState[u].step = 3
                    /\ ~offeringsSchema(optionalList(text))
                 \/ /\ onboardingState[u].step = 4
                    /\ ~lookingForSchema(optionalList(text))
           \/ /\ flow = "create_poll" /\ step = "enter_options"
              /\ Len(commaList(text)) < MIN_OPTIONS_COUNT
           \/ /\ flow = "assign_admin" /\ step = "enter_telegram_id"
              /\ anyone \/ userIsMainAdmin(u)
              /\ ~isDigits(text)
           \/ /\ flow = "set_slide" /\ step = "enter_url"
              /\ text # <<>>
              /\ ~slideUrlSchema(spaceWords(text)[1])
           \/ /\ flow = "ask_question" /\ step = "enter_question"
              /\ ~questionTextSchema(text)
        /\ IsFreeText(t)

\* C7: when a text fails the validation of the step it is typed at (the name
\* or a list in onboarding, fewer than 2 poll options, a non-numeric id typed
\* by a main admin in assign-admin, an invalid slide URL, a question text
\* outside its length bounds), both maps and all collections stay as they were.
C7_ValidationKeepsSession ==
    [][\A u \in Users, t \in InboundTexts :
          (reply'.user = u /\ FailsValidation(u, t, FALSE) /\ TextMessage(u, t))
          => UNCHANGED <<sessionVars, domainVars>>]_vars

\* an interests list has just been refused at onboarding step 2 and the
\* session is still at step 2 with the name typed at step 1
C7_Witness ==
    /\ call.error = "VALIDATION_ERROR"
    /\ call.op = "validate"
    /\ reply.was = "onboarding"
    /\ reply.user \in DOMAIN onboardingState
    /\ onboardingState[reply.user].step = 2
    /\ "firstName" \in DOMAIN onboardingState[reply.user].data

\* C7 as worded, for a non-numeric id typed in assign-admin by anyone
C7_AnyoneKeepsSession ==
    [][\A u \in Users, t \in InboundTexts :
          (reply'.user = u /\ FailsValidation(u, t, TRUE) /\ TextMessage(u, t))
          => UNCHANGED <<sessionVars, domainVars>>]_vars

\* C8: when joinConference fails with CONFERENCE_NOT_FOUND, in the join flow
\* or at onboarding step 5, both maps and all collections stay as they were,
\* so the next text goes to the same step.
C8_NotFoundKeepsSession ==
    [][\A u \in Users, t \in InboundTexts :
          ( /\ call' = Call("joinConference", u, "CONFERENCE_NOT_FOUND")
            /\ TextMessage(u, t) )
          => ( /\ Was(u) \in {"join_conference", "onboarding"}
               /\ UNCHANGED <<sessionVars, domainVars>> )]_vars

\* a code has just been refused at onboarding step 5 and the session is still
\* at step 5 with what was typed before
C8_Witness ==
    /\ call.op = "joinConference"
    /\ call.error = "CONFERENCE_NOT_FOUND"
    /\ reply.was = "onboarding"
    /\ call.user \in DOMAIN onboardingState
    /\ onboardingState[call.user].step = 5
    /\ "interests" \in DOMAIN onboardingState[call.user].data

AuthorizationErrors == {"ACCESS_DENIED", "NOT_SPEAKER", "QUESTION_NOT_FOR_YOU"}

\* C9: when the service call of a flow fails with an authorization error
\* (ACCESS_DENIED, NOT_SPEAKER, QUESTION_NOT_FOR_YOU) the identity has no
\* entry in either map afterwards.  The not-found half of the claim is left
\* out of this statement.
C9_AuthorizationErrorClears ==
    [][\A u \in Users, t \in InboundTexts :
          ( /\ call'.user = u
            /\ call'.error \in AuthorizationErrors
            /\ TextMessage(u, t) )
          => ~HasSession(u)']_vars


-----------------------------------------------------------------------------
(* The moderation runs: moderate:approve and moderate:reject *)

\* the end of a moderation handler: only the questions can have changed
Moderated(u, op, r) ==
    /\ questions' = r.questions
    /\ events' = r.events
    /\ call' = Call(op, u, r.error)
    /\ reply' = [user |-> u, kind |-> IF r.error = "none" THEN "done" ELSE "error",
                 was |-> Was(u)]
    /\ UNCHANGED <<sessionVars, conferences, profiles, polls, inflight, mutations,
                   ioInstance, profileDocs, match, dialogs>>

\* bot.action(/^moderate:approve:(.+):(.+)$/)
ModerateApprove(u, conferenceCode, questionId) ==
    Moderated(u, "approveQuestion", approveQuestion(u, conferenceCode, questionId))

\* bot.action(/^moderate:reject:(.+):(.+)$/)
ModerateReject(u, conferenceCode, questionId) ==
    Moderated(u, "rejectQuestion", rejectQuestion(u, conferenceCode, questionId))

ExpoCode == <<"e","x","p","o">>

\* question ids a moderation button can carry: those there are and one gone
ModerationIds == DOMAIN questions \cup {0}

\* two conferences; user 7 has a profile in both and is an admin of the
\* first only; user 1 is the main admin; two pending questions in each
InitMod ==
    /\ userState = EmptyMap
    /\ onboardingState = EmptyMap
    /\ conferences = [c \in {DevCode, ExpoCode} |->
                        IF c = DevCode
                        THEN [NewConference(1, <<"D","e","v"," ","D","a","y">>, <<>>)
                                 EXCEPT !.admins = {ProfileKey(7, 1)}]
                        ELSE NewConference(2, <<"E","x","p","o">>, <<>>)]
    /\ profiles = [k \in {ProfileKey(7, 1), ProfileKey(7, 2)} |-> NewProfile({"participant"})]
    /\ questions = [q \in 1..4 |->
                       NewQuestion(IF q <= 2 THEN 1 ELSE 2, ProfileKey(7, 1),
                                   <<"W","h","y","?">>, Undefined)]
    /\ polls = EmptyMap
    /\ reply = NoReply
    /\ call = NoCall
    /\ inflight = EmptyBag
    /\ mutations = 0
    /\ events = <<>>
    /\ ioInstance = "io"
    /\ profileDocs = EmptyMap
    /\ match = NoMatch
    /\ dialogs = MaxDialogs

NextMod ==
    \/ \E u \in Users, c \in CallbackCodes, q \in ModerationIds : ModerateApprove(u, c, q)
    \/ \E u \in Users, c \in CallbackCodes, q \in ModerationIds : ModerateReject(u, c, q)

SpecMod == InitMod /\ [][NextMod]_vars

\* the code of the conference a question belongs to
ConferenceOf(q) == CHOOSE c \in DOMAIN conferences : conferences[c].id = questions[q].conference

\* C10: a question goes from pending to approved only in an approve requested
\* by an admin of the question's conference or by a main admin; an approve
\* requested for a question of a conference by anyone else fails with
\* ACCESS_DENIED and changes no question.
C10_ApproveNeedsModerator ==
    /\ [][\A q \in DOMAIN questions :
            (questions[q].status = "pending" /\ questions'[q].status = "approved")
            => ( /\ call'.op = "approveQuestion"
                 /\ call'.error = "none"
                 /\ isConferenceAdmin(call'.user, conferences[ConferenceOf(q)]) )]_vars
    /\ [][\A u \in Users, q \in DOMAIN questions :
            ( /\ ~isConferenceAdmin(u, conferences[ConferenceOf(q)])
              /\ ModerateApprove(u, ConferenceOf(q), q) )
            => ( /\ call' = Call("approveQuestion", u, "ACCESS_DENIED")
                 /\ questions' = questions )]_vars

\* the conference admin has approved a question of their conference and has
\* just been refused on a question of the other one, which is still pending
C10_Witness ==
    /\ call = Call("approveQuestion", 7, "ACCESS_DENIED")
    /\ \E q \in DOMAIN questions :
          questions[q].conference = 1 /\ questions[q].status = "approved"
    /\ \A q \in DOMAIN questions :
          questions[q].conference = 2 => questions[q].status = "pending"

-----------------------------------------------------------------------------
(* The conference lifecycle, the slide and the broadcaster *)

MaxEvents == 2

\* realtime.js setIO(io): io is a server whose emit works, or one whose emit throws
SetIO(io) ==
    /\ ioInstance # io
    /\ ioInstance' = io
    /\ UNCHANGED <<sessionVars, domainVars, reply, call, inflight, mutations,
                   events, profileDocs, match, dialogs>>

\* a callback handler that awaits one conference service call and answers
\* with its outcome; what the call has saved stays saved when it then throws
Pressed(u, op, r) ==
    /\ conferences' = r.conferences
    /\ events' = r.events
    /\ call' = Call(op, u, r.error)
    /\ reply' = [user |-> u, kind |-> IF r.error = "none" THEN "done" ELSE "error",
                 was |-> Was(u)]
    /\ UNCHANGED <<sessionVars, profiles, questions, polls, inflight, mutations,
                   ioInstance, profileDocs, match, dialogs>>

\* bot.action(/^admin:clear_slide:(.+)$/)
AdminClearSlide(u, conferenceCode) ==
    /\ Len(events) < MaxEvents
    /\ Pressed(u, "clearSlide", clearSlide(u, conferenceCode))

\* bot.action(/^admin:end_conf:(.+)$/) with the answer 'yes'; any other
\* answer only edits the message
AdminEndConf(u, conferenceCode, answer) ==
    IF answer = "yes"
    THEN Pressed(u, "endConference", endConference(u, conferenceCode))
    ELSE Pressed(u, "none", [error |-> "none", conferences |-> conferences,
                             events |-> events])

\* bot.action(/^admin:start_conf:(.+)$/)
AdminStartConf(u, conferenceCode) ==
    Pressed(u, "startConference", startConference(u, conferenceCode))

\* bot.action(/^admin:stop_conf:(.+)$/)
AdminStopConf(u, conferenceCode) ==
    Pressed(u, "stopConference", stopConference(u, conferenceCode))

SlideText == <<"h","t","t","p",":","/","/","x"," ","a",",","b">>

\* the free texts of these runs: a conference code and title, a skipped
\* description, and a slide line that is also long enough for a question
ConfTexts == {DevCode, Dash, SlideText}

\* one conference, started, with no slide; user 7 has a profile in it, is an
\* admin of it and a speaker; user 1 is the main admin; one pending question;
\* no realtime server is registered yet
InitConf ==
    /\ userState = EmptyMap
    /\ onboardingState = EmptyMap
    /\ conferences = [c \in {DevCode} |->
                        [NewConference(1, <<"D","e","v"," ","D","a","y">>, <<>>)
                            EXCEPT !.admins = {ProfileKey(7, 1)}]]
    /\ profiles = [k \in {ProfileKey(7, 1)} |->
                      [NewProfile({"participant", "speaker"}) EXCEPT !.onboardingCompleted = TRUE]]
    /\ questions = [q \in {1} |->
                       NewQuestion(1, ProfileKey(7, 1), <<"W","h","y","?">>, Undefined)]
    /\ polls = EmptyMap
    /\ reply = NoReply
    /\ call = NoCall
    /\ inflight = EmptyBag
    /\ mutations = 0
    /\ events = <<>>
    /\ ioInstance = "null"
    /\ profileDocs = EmptyMap
    /\ match = NoMatch
    /\ dialogs = MaxDialogs

NextConf ==
    \/ \E io \in {"io", "io_down"} : SetIO(io)
    \/ \E u \in Users, c \in CallbackCodes : AdminSetSlide(u, c)
    \/ \E u \in Users, c \in CallbackCodes : AdminClearSlide(u, c)
    \/ \E u \in Users, c \in CallbackCodes, a \in {"yes", "no"} : AdminEndConf(u, c, a)
    \/ \E u \in Users, c \in CallbackCodes : AdminStartConf(u, c)
    \/ \E u \in Users, c \in CallbackCodes : AdminStopConf(u, c)
    \/ \E u \in Users, c \in CallbackCodes : AdminEditConf(u, c)
    \/ \E u \in Users : MenuJoinConference(u)
    \/ \E u \in Users, t \in ConfTexts : OnText(u, t)

SpecConf == InitConf /\ [][NextConf]_vars

\* the free texts of the question runs: long enough for a question, and too short
CastTexts == {SlideText, DevCode}

\* the broadcaster's triggers and the life of a question
NextCast ==
    \/ \E io \in {"io", "io_down"} : SetIO(io)
    \/ \E u \in Users, c \in CallbackCodes : AdminSetSlide(u, c)
    \/ \E u \in Users, c \in CallbackCodes : AdminClearSlide(u, c)
    \/ \E u \in Users, c \in CallbackCodes, q \in ModerationIds : ModerateApprove(u, c, q)
    \/ \E u \in Users, c \in CallbackCodes, q \in ModerationIds : ModerateReject(u, c, q)
    \/ \E u \in Users, c \in CallbackCodes : AskSpeaker(u, c, AllTarget)
    \/ \E u \in Users, c \in CallbackCodes, q \in DOMAIN questions : SpeakerAnswer(u, c, q)
    \/ \E u \in Users, t \in CastTexts : OnText(u, t)

SpecCast == InitConf /\ [][NextCast]_vars

\* the question-approved event of a question
ApprovedEvent(q) ==
    [room |-> Room(questions[q].conference), event |-> "question-approved",
     payload |-> [text |-> questions[q].text,
                  hasTarget |-> questions[q].targetSpeaker # Undefined]]

SlideEvent(conference) ==
    [room |-> Room(conference.id), event |-> "slide-updated",
     payload |-> [url |-> conference.currentSlideUrl,
                  title |-> conference.currentSlideTitle]]

\* the slide-updated event of a cleared slide
ClearedEvent(conference) ==
    [room |-> Room(conference.id), event |-> "slide-updated",
     payload |-> [url |-> Null, title |-> Null]]

\* a step publishes at most one event, and only as a set-slide, a clear-slide
\* or an approval; a submitted or rejected question publishes none
OnlyOnTriggers ==
    /\ events' # events =>
            ( /\ Len(events') = Len(events) + 1
              /\ SubSeq(events', 1, Len(events)) = events
              /\ call'.op \in {"setSlide", "clearSlide", "approveQuestion"} )
    /\ \A u \in Users, c \in CallbackCodes, q \in ModerationIds :
            ModerateReject(u, c, q) => events' = events
    /\ \A u \in Users, t \in CastTexts :
            (call'.op = "askQuestion" /\ reply'.user = u /\ OnText(u, t))
            => events' = events

\* under the condition served, a set-slide, clear-slide or approval that
\* succeeds publishes its one event
PublishesWhen(served) ==
    /\ \A u \in Users, t \in CastTexts :
            ( /\ served
              /\ call' = Call("setSlide", u, "none")
              /\ reply'.user = u
              /\ Was(u) = "set_slide"
              /\ OnText(u, t) )
            => events' = Append(events, SlideEvent(conferences'[userState[u].conferenceCode]))
    /\ \A u \in Users, c \in DOMAIN conferences :
            ( /\ served
              /\ call' = Call("clearSlide", u, "none")
              /\ AdminClearSlide(u, c) )
            => events' = Append(events, ClearedEvent(conferences'[c]))
    /\ \A u \in Users, c \in CallbackCodes, q \in DOMAIN questions :
            ( /\ served
              /\ call' = Call("approveQuestion", u, "none")
              /\ ModerateApprove(u, c, q) )
            => events' = Append(events, ApprovedEvent(q))

\* C12 as amended: while a realtime server is registered and its emit works,
\* each successful set-slide publishes one slide-updated event with the url
\* and title stored, each successful clear-slide one slide-updated event with
\* url and title null, each approval one question-approved event; no step
\* publishes anything else, a submitted or rejected question publishes
\* nothing, and nothing is published while no server is registered.
C12_PublishesOnTriggers ==
    [][ /\ OnlyOnTriggers
        /\ PublishesWhen(ioInstance = "io")
        /\ ioInstance = "null" => events' = events ]_vars

\* C12 as written: each successful set-slide, clear-slide and approval
\* publishes its one event, and nothing else is ever published.
C12_PublishesAlways ==
    [][OnlyOnTriggers /\ PublishesWhen(TRUE)]_vars

\* a slide was set, then cleared, then the pending question approved, and the
\* three events were published in that order
C12_Witness ==
    /\ Len(events) = 3
    /\ events[1] = [room |-> Room(1), event |-> "slide-updated",
                    payload |-> [url |-> <<"h","t","t","p",":","/","/","x">>,
                                 title |-> <<"a",",","b">>]]
    /\ events[2] = ClearedEvent(conferences[DevCode])
    /\ events[3] = ApprovedEvent(1)
    /\ questions[1].status = "approved"

\* the errors setSlide and clearSlide raise before they store anything
RefusedSlide == {"VALIDATION_ERROR", "CONFERENCE_NOT_FOUND", "ACCESS_DENIED"}

\* C13: whatever the broadcaster does (no server registered, or an emit that
\* throws), a set-slide or clear-slide that was not refused returns to its
\* caller without an error, and the slide it stored stays stored.
C13_PublishFailureSwallowed ==
    /\ [][\A u \in Users, c \in DOMAIN conferences :
            (call'.op = "clearSlide" /\ AdminClearSlide(u, c) /\ call'.error \notin RefusedSlide)
            => ( /\ call'.error = "none"
                 /\ conferences'[c].currentSlideUrl = Undefined )]_vars
    /\ [][\A u \in Users, t \in ConfTexts :
            ( /\ call'.op = "setSlide"
              /\ reply'.user = u
              /\ Was(u) = "set_slide"
              /\ OnText(u, t)
              /\ call'.error \notin RefusedSlide )
            => ( /\ call'.error = "none"
                 /\ conferences'[userState[u].conferenceCode].currentSlideUrl
                        = spaceWords(t)[1] )]_vars

\* C14: a join with a code of no conference, or with the code of a conference
\* that has been ended, fails with CONFERENCE_NOT_FOUND and leaves the
\* profiles as they were.
C14_JoinNeedsOpenConference ==
    [][\A u \in Users, t \in ConfTexts :
          ( /\ call'.op = "joinConference"
            /\ reply'.user = u
            /\ Was(u) = "join_conference"
            /\ (t \notin DOMAIN conferences \/ conferences[t].isEnded)
            /\ OnText(u, t) )
          => ( /\ call'.error = "CONFERENCE_NOT_FOUND"
               /\ profiles' = profiles )]_vars

\* the conference has been ended and the main admin, who has no profile in
\* it, has just been refused in the join dialog and still has none
C14_Witness ==
    /\ conferences[DevCode].isEnded
    /\ call = Call("joinConference", 1, "CONFERENCE_NOT_FOUND")
    /\ reply.was = "join_conference"
    /\ ProfileKey(1, 1) \notin DOMAIN profiles

-----------------------------------------------------------------------------
(* The profile documents under calls in flight *)

\* the documents of a (telegramId, conference) pair
DocsOf(docs, telegramId, conferenceId) ==
    {id \in DOMAIN docs : /\ docs[id].telegramId = telegramId
                          /\ docs[id].conference = conferenceId}

\* UserProfile.findOne({telegramId, conference}): the _id of the first
\* document of the pair, 0 for null
findOne(docs, telegramId, conferenceId) ==
    IF DocsOf(docs, telegramId, conferenceId) = {} THEN 0
    ELSE CHOOSE id \in DocsOf(docs, telegramId, conferenceId) :
            \A other \in DocsOf(docs, telegramId, conferenceId) : id <= other

\* Object.assign(profile, validated); profile.onboardingCompleted = true
assigned(profile, validated) ==
    [f \in (DOMAIN profile) \cup (DOMAIN validated) \cup {"onboardingCompleted"} |->
        IF f = "onboardingCompleted" THEN TRUE
        ELSE IF f \in DOMAIN validated THEN validated[f] ELSE profile[f]]

\* the data objects of the calls: one that passes userProfileSchema, one that does not
UpsertData ==
    { [firstName |-> <<"A","n","n">>],
      [firstName |-> <<"7">>] }

\* the conferenceId arguments: the conference's _id, and 0 for none
UpsertConferenceIds == {1, 0}

\* upsertProfileForConference up to the end of its await of findOne: the keys,
\* validate, findOne
UpsertFound(telegramId, conferenceId, data) ==
    /\ BagCardinality(inflight) < MaxInFlight
    /\ IF conferenceId = 0
       THEN /\ call' = Call("upsertProfileForConference", telegramId, "MISSING_KEYS")
            /\ UNCHANGED inflight
       ELSE IF ~userProfileSchema(data)
       THEN /\ call' = Call("upsertProfileForConference", telegramId, "VALIDATION_ERROR")
            /\ UNCHANGED inflight
       ELSE /\ inflight' = inflight (+) SetToBag({
                    [telegramId |-> telegramId, conferenceId |-> conferenceId,
                     validated |-> data,
                     profile |-> findOne(profileDocs, telegramId, conferenceId)]})
            /\ UNCHANGED call
    /\ UNCHANGED <<sessionVars, domainVars, reply, mutations, events, ioInstance,
                   profileDocs, match, dialogs>>

\* upsertProfileForConference from the result of findOne on: a new document
\* when none was found, Object.assign, save
UpsertSaved(a) ==
    /\ BagIn(a, inflight)
    /\ inflight' = inflight (-) SetToBag({a})
    /\ profileDocs' =
          IF a.profile = 0
          THEN MapSet(profileDocs, Cardinality(DOMAIN profileDocs) + 1,
                      assigned([telegramId |-> a.telegramId, conference |-> a.conferenceId,
                                isActive |-> TRUE], a.validated))
          ELSE [profileDocs EXCEPT ![a.profile] = assigned(@, a.validated)]
    /\ call' = Call("upsertProfileForConference", a.telegramId, "none")
    /\ UNCHANGED <<sessionVars, domainVars, reply, mutations, events, ioInstance, match, dialogs>>

\* joinConference as the documents see it: one step that creates the profile
\* of the pair when there is none
JoinStored(u, code) ==
    /\ profileDocs' =
          IF code \notin DOMAIN conferences \/ conferences[code].isEnded
               \/ findOne(profileDocs, u, conferences[code].id) # 0
          THEN profileDocs
          ELSE MapSet(profileDocs, Cardinality(DOMAIN profileDocs) + 1,
                      [telegramId |-> u, conference |-> conferences[code].id,
                       isActive |-> TRUE, roles |-> {"participant"},
                       onboardingCompleted |-> FALSE])
    /\ call' = Call("joinConference", u,
                    IF code \notin DOMAIN conferences \/ conferences[code].isEnded
                    THEN "CONFERENCE_NOT_FOUND" ELSE "none")
    /\ UNCHANGED <<sessionVars, domainVars, reply, inflight, mutations, events, ioInstance, match, dialogs>>

\* one conference and no profile document yet
InitUpsert ==
    /\ userState = EmptyMap
    /\ onboardingState = EmptyMap
    /\ conferences = [c \in {DevCode} |->
                        NewConference(1, <<"D","e","v"," ","D","a","y">>, <<>>)]
    /\ profiles = EmptyMap
    /\ questions = EmptyMap
    /\ polls = EmptyMap
    /\ reply = NoReply
    /\ call = NoCall
    /\ inflight = EmptyBag
    /\ mutations = 0
    /\ events = <<>>
    /\ ioInstance = "null"
    /\ profileDocs = EmptyMap
    /\ match = NoMatch
    /\ dialogs = MaxDialogs

NextUpsert ==
    \/ \E u \in Users, c \in UpsertConferenceIds, data \in UpsertData : UpsertFound(u, c, data)
    \/ \E a \in BagToSet(inflight) : UpsertSaved(a)
    \/ \E u \in Users, c \in CallbackCodes : JoinStored(u, c)

SpecUpsert == InitUpsert /\ [][NextUpsert]_vars

C16_EndedIsTerminal ==
    [][\A c \in DOMAIN conferences :
          conferences[c].isEnded
          => (c \in DOMAIN conferences' /\ conferences'[c] = conferences[c])]_vars

\* C17: a vote on a missing or inactive poll, for an option id the poll does
\* not have, or by a voter already recorded in the poll is refused, and a
\* refused vote leaves every voter set of every poll as it was.
C17_RefusedVoteChangesNothing ==
    [][\A a \in BagToSet(inflight) :
          VotePollHandled(a)
          => ( /\ ( \/ a.pollId \notin DOMAIN polls
                    \/ ~polls[a.pollId].isActive
                    \/ OptionIndex(polls[a.pollId], a.optionId) = 0
                    \/ HasVoted(polls[a.pollId], a.user) ) => call'.error # "none"
               /\ call'.error # "none" => polls' = polls )]_vars

\* voter 7 is recorded on the option with id 0 and nowhere else, the option
\* with id 1 has no vote, and a later vote of 7 has just failed with ALREADY_VOTED
C17_Witness ==
    /\ polls[1].options[1].id = 0
    /\ polls[1].options[1].voters = {7}
    /\ polls[1].options[2].voters = {}
    /\ call = Call("voteInPoll", 7, "ALREADY_VOTED")

\* C18: a question is created pending and not answered; its status changes
\* only from pending, to approved or to rejected; it becomes answered only
\* while approved, and stays answered; so an answered question is approved.
C18_QuestionLifecycle ==
    /\ [](\A q \in DOMAIN questions :
            questions[q].isAnswered => questions[q].status = "approved")
    /\ [][\A q \in DOMAIN questions' :
            IF q \notin DOMAIN questions
            THEN questions'[q].status = "pending" /\ ~questions'[q].isAnswered
            ELSE /\ questions'[q].status # questions[q].status
                    => ( /\ questions[q].status = "pending"
                         /\ questions'[q].status \in {"approved", "rejected"} )
                 /\ questions'[q].isAnswered # questions[q].isAnswered
                    => ( /\ questions'[q].isAnswered
                         /\ questions[q].status = "approved"
                         /\ questions'[q].status = "approved" )]_vars

\* the question was approved and the speaker has just answered it
C18_Witness ==
    /\ questions[1].status = "approved"
    /\ questions[1].isAnswered
    /\ questions[1].answeredBy = ProfileKey(7, 1)
    /\ call = Call("answerQuestion", 7, "none")

\* ---------------------------------------------------------------------------
\* The admin list of a conference
\* ---------------------------------------------------------------------------

\* the texts of the admin runs: the two known Telegram ids and one that is no number
AdminTexts == {<<"7">>, <<"1">>, <<"x">>}

\* conference dev with both users registered in it and user 7 its admin
InitAdmins ==
    /\ userState = EmptyMap
    /\ onboardingState = EmptyMap
    /\ conferences = [c \in {DevCode} |->
                        [NewConference(1, <<"D","e","v"," ","D","a","y">>, <<>>)
                            EXCEPT !.admins = {ProfileKey(7, 1)}]]
    /\ profiles = [k \in {ProfileKey(7, 1), ProfileKey(1, 1)} |->
                      [NewProfile({"participant"}) EXCEPT !.onboardingCompleted = TRUE]]
    /\ questions = EmptyMap
    /\ polls = EmptyMap
    /\ reply = NoReply
    /\ call = NoCall
    /\ inflight = EmptyBag
    /\ mutations = 0
    /\ events = <<>>
    /\ ioInstance = "null"
    /\ profileDocs = EmptyMap
    /\ match = NoMatch
    /\ dialogs = MaxDialogs

\* the admin-management screens, the assign dialog, the revoke button and the
\* lifecycle buttons of the conference's own admin
NextAdmins ==
    \/ \E u \in Users : MenuAdminManageAdmins(u)
    \/ \E u \in Users, c \in CallbackCodes : AdminManageAdminsConf(u, c)
    \/ \E u \in Users, c \in CallbackCodes : AdminAssignAdmin(u, c)
    \/ \E u \in Users, c \in CallbackCodes : AdminRevokeAdmin(u, c)
    \/ \E u \in Users, c \in CallbackCodes, t \in AdminTexts :
          AdminRevokeAdminConfirm(u, c, t)
    \/ \E u \in Users, c \in CallbackCodes, a \in {"yes", "no"} : AdminEndConf(u, c, a)
    \/ \E u \in Users, c \in CallbackCodes : AdminStartConf(u, c)
    \/ \E u \in Users, c \in CallbackCodes : AdminStopConf(u, c)
    \/ \E u \in Users, t \in AdminTexts : OnText(u, t)

SpecAdmins == InitAdmins /\ [][NextAdmins]_vars

\* C19: a step taken by an identity that is not a main admin invokes neither
\* assignConferenceAdmin nor revokeConferenceAdmin and leaves the admin list
\* of every conference as it was.
C19_AdminsOnlyByMainAdmin ==
    [][reply'.user \notin MainAdminIds
       => ( /\ call'.op \notin {"assignConferenceAdmin", "revokeConferenceAdmin"}
            /\ \A c \in DOMAIN conferences :
                  /\ c \in DOMAIN conferences'
                  /\ conferences'[c].admins = conferences[c].admins )]_vars

\* user 7, who is no main admin, was in the assign dialog and has just been
\* denied, and the conference still has its one admin
C19_Witness ==
    /\ reply = [user |-> 7, kind |-> "denied", was |-> "assign_admin"]
    /\ call = NoCall
    /\ conferences[DevCode].admins = {ProfileKey(7, 1)}

\* ---------------------------------------------------------------------------
\* The order of the onboarding steps
\* ---------------------------------------------------------------------------

\* what one step may do to the onboarding session of u: end it, leave it,
\* start it afresh at step 1 with no data, or move it on by one, up to step 5
StepInOrder(u) ==
    \/ u \notin DOMAIN onboardingState'
    \/ onboardingState'[u] = onboardingState[u]
    \/ onboardingState'[u] = [step |-> 1, data |-> <<>>]
    \/ /\ onboardingState[u].step \in 1..4
       /\ onboardingState'[u].step = onboardingState[u].step + 1

\* a free text of user u taken at onboarding step 1 to 4
TextAtEarlyStep(u, t) ==
    LET step == onboardingState[u].step
        data == onboardingState[u].data
    IN  /\ profiles' = profiles
        /\ call'.op \notin {"joinConference", "upsertProfileForConference"}
        /\ ~FailsValidation(u, t, FALSE)
           => (u \in DOMAIN onboardingState' /\ onboardingState'[u].step = step + 1)
        /\ (step >= 2 /\ trim(t) = Dash)
           => (u \in DOMAIN onboardingState'
               /\ onboardingState'[u] = [step |-> step + 1, data |-> data])

\* a free text of user u taken at onboarding step 5
TextAtCodeStep(u, t) ==
    LET code == trim(t)
        data == onboardingState[u].data
    IN  IF code # <<>> /\ joinConference(u, code).error = "none"
        THEN LET key == ProfileKey(u, conferences[code].id)
             IN  /\ call' = Call("upsertProfileForConference", u, "none")
                 /\ u \notin DOMAIN onboardingState'
                 /\ u \notin DOMAIN userState'
                 /\ key \in DOMAIN profiles'
                 /\ profiles'[key].onboardingCompleted
                 /\ \A f \in DOMAIN data : profiles'[key][f] = data[f]
        ELSE /\ profiles' = profiles
             /\ call'.op # "upsertProfileForConference"
             /\ u \in DOMAIN onboardingState'
             /\ onboardingState'[u] = onboardingState[u]

\* C20: the onboarding session of a user moves from step 1 to step 5 one step
\* at a time: a step of the program ends the session, leaves it, starts it
\* afresh at step 1 or moves it on by exactly one; a text that passes the
\* validation of step 1 to 4 moves it on by one, "-" at step 2 to 4 moves it on
\* and records nothing, no profile is written before step 5, and at step 5 the
\* profile is written exactly when the join succeeds, and then the session is
\* cleared.
C20_OnboardingInOrder ==
    [][\A u \in Users :
          /\ u \in DOMAIN onboardingState => StepInOrder(u)
          /\ \A t \in InboundTexts :
                ( /\ reply'.user = u
                  /\ Was(u) = "onboarding"
                  /\ IsFreeText(t)
                  /\ TextMessage(u, t) )
                => IF onboardingState[u].step = 5 THEN TextAtCodeStep(u, t)
                   ELSE TextAtEarlyStep(u, t)]_vars

\* user 1 gave the name "dev", skipped the three lists with "-", joined
\* conference dev at step 5, and the profile is stored and the session gone
C20_Witness ==
    /\ reply = [user |-> 1, kind |-> "done", was |-> "onboarding"]
    /\ call = Call("upsertProfileForConference", 1, "none")
    /\ ~HasSession(1)
    /\ ProfileKey(1, 1) \in DOMAIN profiles
    /\ profiles[ProfileKey(1, 1)].onboardingCompleted
    /\ profiles[ProfileKey(1, 1)].firstName = DevCode
    /\ "interests" \notin DOMAIN profiles[ProfileKey(1, 1)]

\* ---------------------------------------------------------------------------
\* The dialogs step by step
\* ---------------------------------------------------------------------------

\* listSpeakers of conference.service: the profiles of the conference with the
\* speaker role
listSpeakers(conferenceCode) ==
    IF conferenceCode \notin DOMAIN conferences THEN {}
    ELSE {k \in DOMAIN profiles : /\ k[2] = conferences[conferenceCode].id
                                  /\ "speaker" \in profiles[k].roles}

\* C21: choosing a conference that has a speaker in the ask-question dialog does
\* not yet put the session at the question text: the choice of the target
\* speaker comes first.
C21_SpeakerSelectionFirst ==
    [][\A u \in Users, c \in DOMAIN conferences :
          (reply'.user = u /\ listSpeakers(c) # {} /\ AskConf(u, c))
          => ~( /\ u \in DOMAIN userState'
                /\ userState'[u].flow = "ask_question"
                /\ userState'[u].step = "enter_question" )]_vars

\* C22: a text sent at the title step of the create-conference dialog creates
\* no conference; the conference is created only after the description step.
C22_TitleStepCreatesNothing ==
    [][\A u \in Users, t \in InboundTexts :
          ( /\ reply'.user = u
            /\ Flow(u) = "create_conference"
            /\ Step(u) = "enter_title"
            /\ IsFreeText(t)
            /\ TextMessage(u, t) )
          => conferences' = conferences]_vars

\* C23: a text sent at the question step of the edit-poll dialog, a new
\* question or "-", has updatePoll called for the poll of the session.
C23_EditPollCompletes ==
    [][\A u \in Users, t \in InboundTexts :
          ( /\ reply'.user = u
            /\ Flow(u) = "edit_poll"
            /\ Step(u) = "enter_question"
            /\ IsFreeText(t)
            /\ TextMessage(u, t) )
          => call'.op = "updatePoll"]_vars

\* ---------------------------------------------------------------------------
\* The options of a new poll
\* ---------------------------------------------------------------------------

PollQuestion == <<"L","u","n","c","h","?">>

\* two options once trimmed and filtered
TwoOptions == <<" ","a",","," ",",","b",",">>

\* one option once trimmed and filtered
OneOption == <<"a",","," ",","," ">>

TenOptions == <<"a",",","b",",","c",",","d",",","e",",","f",",","g",",","h",",","i",",","j">>

ElevenOptions == TenOptions \o <<",","k">>

\* a question, a text too short for one, and options texts on both sides of the limits
PollTexts == {PollQuestion, DevCode, TwoOptions, OneOption, TenOptions, ElevenOptions}

\* the create-poll dialog from both of its buttons
NextPoll ==
    \/ \E u \in Users, c \in CallbackCodes : AdminCreatePoll(u, c)
    \/ \E u \in Users, c \in CallbackCodes : SpeakerCreatePoll(u, c)
    \/ \E u \in Users, t \in PollTexts : OnText(u, t)

SpecPoll == InitAdmins /\ [][NextPoll]_vars

\* C24: a text taken at the options step of the create-poll dialog creates a
\* poll only when it holds 2 to 10 options once each item is trimmed and the
\* empty items are dropped, and then the poll has exactly these options, with
\* ids from 0 in input order; with fewer than 2 or more than 10 no poll is
\* created and the session stays as it was, at the options step.
C24_PollNeedsTwoToTenOptions ==
    [][\A u \in Users, t \in PollTexts :
          ( /\ reply'.user = u
            /\ Flow(u) = "create_poll"
            /\ Step(u) = "enter_options"
            /\ OnText(u, t) )
          => LET options == commaList(t)
                 n == Len(options)
             IN  /\ polls' # polls
                    => ( /\ n >= 2 /\ n <= 10
                         /\ \E p \in DOMAIN polls' \ DOMAIN polls :
                               /\ DOMAIN polls' = DOMAIN polls \cup {p}
                               /\ Len(polls'[p].options) = n
                               /\ \A k \in 1..n : /\ polls'[p].options[k].id = k - 1
                                                  /\ polls'[p].options[k].text = options[k] )
                 /\ (n < 2 \/ n > 10)
                    => (polls' = polls /\ userState' = userState)]_vars

\* the main admin gave a question and then eleven options: the poll was refused,
\* nothing was created and the session is still at the options step
C24_Witness ==
    /\ call = Call("createPoll", 1, "VALIDATION_ERROR")
    /\ reply.was = "create_poll"
    /\ 1 \in DOMAIN userState
    /\ userState[1].step = "enter_options"
    /\ userState[1].question = PollQuestion
    /\ polls = EmptyMap

\* ---------------------------------------------------------------------------
\* The parameters of an action token
\* ---------------------------------------------------------------------------

Colon == <<":">>

AdminEndConfPrefix == <<"a","d","m","i","n",":","e","n","d","_","c","o","n","f",":">>
AdminDeleteConfConfirmPrefix == <<"a","d","m","i","n",":","d","e","l","e","t","e","_","c","o","n","f","_","c","o","n","f","i","r","m",":">>
AdminPollPrefix == <<"a","d","m","i","n",":","p","o","l","l",":">>
PollDeletePrefix == <<"p","o","l","l",":","d","e","l","e","t","e",":">>
ModerateApprovePrefix == <<"m","o","d","e","r","a","t","e",":","a","p","p","r","o","v","e",":">>
SpeakerAnswerPrefix == <<"s","p","e","a","k","e","r",":","a","n","s","w","e","r",":">>

\* /^<prefix>(.+)$/ on the callback data: the one group, or nothing
MatchOne(prefix, data) ==
    IF startsWith(data, prefix) /\ Len(data) > Len(prefix)
    THEN <<SubSeq(data, Len(prefix) + 1, Len(data))>>
    ELSE <<>>

\* /^<prefix>(.+):(.+)$/ on the callback data: the first group is greedy, so
\* the two groups are divided at the last colon that leaves both non-empty
MatchTwo(prefix, data) ==
    LET rest == IF startsWith(data, prefix)
                THEN SubSeq(data, Len(prefix) + 1, Len(data)) ELSE <<>>
        colons == {i \in 2..(Len(rest) - 1) : rest[i] = ":"}
    IN  IF colons = {} THEN <<>>
        ELSE LET i == CHOOSE k \in colons : \A j \in colons : j <= k
             IN  <<SubSeq(rest, 1, i - 1), SubSeq(rest, i + 1, Len(rest))>>

\* the codes put into the tokens, with and without colons, and the ids
TokenCodes == {DevCode, <<"x">>, <<"a",":","b">>, <<"a",":","b",":","c">>, <<"7">>}
TokenIds == {<<"1">>, <<"2","2">>}
TokenAnswers == {<<"y","e","s">>, <<"n","o">>}

\* the menus build a token as prefix, first parameter, colon, second parameter
Token(prefix, first, second) == prefix \o first \o Colon \o second

Tokens ==
    {Token(p, a, c) : p \in {AdminEndConfPrefix, AdminDeleteConfConfirmPrefix},
                      a \in TokenAnswers, c \in TokenCodes}
    \cup {Token(p, i, c) : p \in {AdminPollPrefix, PollDeletePrefix},
                           i \in TokenIds, c \in TokenCodes}
    \cup {Token(p, c, i) : p \in {ModerateApprovePrefix, SpeakerAnswerPrefix},
                           c \in TokenCodes, i \in TokenIds}

\* a handler up to the point where it has taken its parameters from ctx.match
Parsed(u, data, taken) ==
    /\ match' = [data |-> data] @@ taken
    /\ reply' = [user |-> u, kind |-> "menu", was |-> Was(u)]
    /\ UNCHANGED <<sessionVars, domainVars, call, inflight, mutations,
                   events, ioInstance, profileDocs, dialogs>>

\* admin:end_conf and admin:delete_conf_confirm: one group, split on ":", the
\* first part is the answer and the other parts joined again are the code
ConfirmToken(u, prefix, data) ==
    LET m == MatchOne(prefix, data)
        parts == split(m[1], ":")
    IN  /\ m # <<>>
        /\ Parsed(u, data, [action |-> parts[1],
                            conferenceCode |-> join(Tail(parts), Colon)])

OnAdminEndConf(u, data) == ConfirmToken(u, AdminEndConfPrefix, data)

OnAdminDeleteConfConfirm(u, data) == ConfirmToken(u, AdminDeleteConfConfirmPrefix, data)

\* admin:poll and poll:delete: const [, pollId, conferenceCode] = ctx.match
PollToken(u, prefix, data) ==
    LET m == MatchTwo(prefix, data)
    IN  /\ m # <<>>
        /\ Parsed(u, data, [pollId |-> m[1], conferenceCode |-> m[2]])

OnAdminPoll(u, data) == PollToken(u, AdminPollPrefix, data)

OnPollDelete(u, data) == PollToken(u, PollDeletePrefix, data)

\* moderate:approve and speaker:answer: const [, conferenceCode, questionId] = ctx.match
QuestionToken(u, prefix, data) ==
    LET m == MatchTwo(prefix, data)
    IN  /\ m # <<>>
        /\ Parsed(u, data, [conferenceCode |-> m[1], questionId |-> m[2]])

OnModerateApprove(u, data) == QuestionToken(u, ModerateApprovePrefix, data)

OnSpeakerAnswer(u, data) == QuestionToken(u, SpeakerAnswerPrefix, data)

NextToken ==
    \/ \E u \in Users, data \in Tokens : OnAdminEndConf(u, data)
    \/ \E u \in Users, data \in Tokens : OnAdminDeleteConfConfirm(u, data)
    \/ \E u \in Users, data \in Tokens : OnAdminPoll(u, data)
    \/ \E u \in Users, data \in Tokens : OnPollDelete(u, data)
    \/ \E u \in Users, data \in Tokens : OnModerateApprove(u, data)
    \/ \E u \in Users, data \in Tokens : OnSpeakerAnswer(u, data)

SpecToken == InitAdmins /\ [][NextToken]_vars

\* C25: whatever code, with or without colons, and whatever other parameter
\* were put into a token, its handler takes exactly that code and that
\* parameter from it.
C25_TokenRoundTrip ==
    \A c \in TokenCodes :
       /\ \A a \in TokenAnswers :
             \A p \in {AdminEndConfPrefix, AdminDeleteConfConfirmPrefix} :
                match.data = Token(p, a, c)
                => (match.action = a /\ match.conferenceCode = c)
       /\ \A i \in TokenIds :
             /\ \A p \in {AdminPollPrefix, PollDeletePrefix} :
                   match.data = Token(p, i, c)
                   => (match.pollId = i /\ match.conferenceCode = c)
             /\ \A p \in {ModerateApprovePrefix, SpeakerAnswerPrefix} :
                   match.data = Token(p, c, i)
                   => (match.questionId = i /\ match.conferenceCode = c)

\* ---------------------------------------------------------------------------
\* The rooms of two conferences
\* ---------------------------------------------------------------------------

OtherCode == <<"x">>

\* conferences dev (id 1) and x (id 2), user 7 an admin of both, one pending
\* question in each, and a realtime server registered
InitRooms ==
    /\ userState = EmptyMap
    /\ onboardingState = EmptyMap
    /\ conferences = [c \in {DevCode, OtherCode} |->
                        IF c = DevCode
                        THEN [NewConference(1, <<"D","e","v"," ","D","a","y">>, <<>>)
                                 EXCEPT !.admins = {ProfileKey(7, 1)}]
                        ELSE [NewConference(2, <<"X"," ","D","a","y">>, <<>>)
                                 EXCEPT !.admins = {ProfileKey(7, 2)}]]
    /\ profiles = [k \in {ProfileKey(7, 1), ProfileKey(7, 2)} |->
                      [NewProfile({"participant"}) EXCEPT !.onboardingCompleted = TRUE]]
    /\ questions = [q \in {1, 2} |->
                       NewQuestion(q, ProfileKey(7, q), <<"W","h","y","?">>, Undefined)]
    /\ polls = EmptyMap
    /\ reply = NoReply
    /\ call = NoCall
    /\ inflight = EmptyBag
    /\ mutations = 0
    /\ events = <<>>
    /\ ioInstance = "io"
    /\ profileDocs = EmptyMap
    /\ match = NoMatch
    /\ dialogs = MaxDialogs

\* the three triggers of the broadcaster, on either conference
NextRooms ==
    \/ \E u \in Users, c \in CallbackCodes : AdminSetSlide(u, c)
    \/ \E u \in Users, c \in CallbackCodes : AdminClearSlide(u, c)
    \/ \E u \in Users, c \in CallbackCodes, q \in ModerationIds : ModerateApprove(u, c, q)
    \/ \E u \in Users : OnText(u, SlideText)

SpecRooms == InitRooms /\ [][NextRooms]_vars

\* every event this step has published went to the room made from the id of
\* the conference with this code, and not to one made from the code
PublishedOnlyTo(conferenceCode) ==
    \A i \in (Len(events) + 1)..Len(events') :
       /\ conferenceCode \in DOMAIN conferences
       /\ events'[i].room = Room(conferences[conferenceCode].id)
       /\ events'[i].room # <<"c","o","n","f","e","r","e","n","c","e","-">> \o conferenceCode

\* C26: the events published by a step go to the room made from the id of the
\* conference the step worked on, never to a room made from its code and never
\* to the room of the other conference; no step takes an event back.
C26_RoomOfTheConference ==
    [][/\ Len(events') >= Len(events)
       /\ SubSeq(events', 1, Len(events)) = events
       /\ \A u \in Users, c \in CallbackCodes :
             (call'.user = u /\ call'.op = "clearSlide" /\ AdminClearSlide(u, c))
             => PublishedOnlyTo(c)
       /\ \A u \in Users :
             (call'.user = u /\ Flow(u) = "set_slide" /\ OnText(u, SlideText))
             => PublishedOnlyTo(userState[u].conferenceCode)
       /\ \A u \in Users, c \in CallbackCodes, q \in ModerationIds :
             (call'.user = u /\ call'.op = "approveQuestion" /\ ModerateApprove(u, c, q))
             => PublishedOnlyTo(c)]_vars

\* a slide was set on conference x and the question of conference dev was
\* approved: the first event is in the room of id 2, the second in that of id 1
C26_Witness ==
    /\ Len(events) = 2
    /\ events[1].event = "slide-updated"
    /\ events[1].room = Room(2)
    /\ conferences[OtherCode].currentSlideUrl # Undefined
    /\ conferences[DevCode].currentSlideUrl = Undefined
    /\ events[2] = ApprovedEvent(1)
    /\ events[2].room = Room(1)

\* ---------------------------------------------------------------------------
\* The sessions of two identities side by side
\* ---------------------------------------------------------------------------

MaxSessions == 2

\* the same start as the admin runs, with both identities allowed in a dialog
InitSessions ==
    /\ userState = EmptyMap
    /\ onboardingState = EmptyMap
    /\ conferences = [c \in {DevCode} |->
                        [NewConference(1, <<"D","e","v"," ","D","a","y">>, <<>>)
                            EXCEPT !.admins = {ProfileKey(7, 1)}]]
    /\ profiles = [k \in {ProfileKey(7, 1)} |->
                      [NewProfile({"participant"}) EXCEPT !.onboardingCompleted = TRUE]]
    /\ questions = EmptyMap
    /\ polls = EmptyMap
    /\ reply = NoReply
    /\ call = NoCall
    /\ inflight = EmptyBag
    /\ mutations = 0
    /\ events = <<>>
    /\ ioInstance = "null"
    /\ profileDocs = EmptyMap
    /\ match = NoMatch
    /\ dialogs = MaxSessions

SessionTexts == {DevCode, Dash, <<" ","C","a","n","c","e","l">>}

\* both identities starting, continuing, leaving and cancelling dialogs
NextSessions ==
    \/ \E u \in Users : Start(u)
    \/ \E u \in Users : CommandCancel(u)
    \/ \E u \in Users : MenuMain(u)
    \/ \E u \in Users : MenuOnboarding(u)
    \/ \E u \in Users : MenuJoinConference(u)
    \/ \E u \in Users, c \in CallbackCodes : AdminAssignAdmin(u, c)
    \/ \E u \in Users, t \in SessionTexts : OnText(u, t)

SpecSessions == InitSessions /\ [][NextSessions]_vars

\* the session of identity u is the same before and after the step
SessionKept(u) ==
    /\ (u \in DOMAIN userState') = (u \in DOMAIN userState)
    /\ u \in DOMAIN userState => userState'[u] = userState[u]
    /\ (u \in DOMAIN onboardingState') = (u \in DOMAIN onboardingState)
    /\ u \in DOMAIN onboardingState => onboardingState'[u] = onboardingState[u]

\* C27: a step changes the session of no identity but the one whose event it
\* handles: whatever identity A sends, the session of identity B is kept as it
\* is, so a session its owner never completes, cancels or replaces stays.
C27_SessionOwnedByIdentity ==
    [][\A a \in Users : reply'.user = a
          => \A b \in Users \ {a} : SessionKept(b)]_vars

\* identity 7 is at onboarding step 2 with its name taken, and identity 1, who
\* was in the join dialog, has just cancelled it
C27_Witness ==
    /\ reply = [user |-> 1, kind |-> "cancelled", was |-> "join_conference"]
    /\ ~HasSession(1)
    /\ 7 \in DOMAIN onboardingState
    /\ onboardingState[7].step = 2
    /\ onboardingState[7].data.firstName = DevCode

\* ---------------------------------------------------------------------------
\* The commands of the README
\* ---------------------------------------------------------------------------

\* C28: the message "/join dev" has joinConference performed for its sender
\* with the code dev.
C28_JoinCommandJoins ==
    [][\A u \in Users :
          (reply'.user = u /\ TextMessage(u, <<"/","j","o","i","n"," ","d","e","v">>))
          => ( /\ call' = Call("joinConference", u, "none")
               /\ ProfileKey(u, conferences[DevCode].id) \in DOMAIN profiles' )]_vars

\* ---------------------------------------------------------------------------
\* A terminal text step suspended in its service call
\* ---------------------------------------------------------------------------

\* the session is at the text step that ends the join, the create-conference
\* or the ask-question dialog
AtTerminalStep(state) ==
    \/ state.flow = "join_conference"
    \/ state.flow = "ask_question" /\ Field(state, "step") = "enter_question"
    \/ state.flow = "create_conference" /\ Field(state, "step") = "enter_title"

\* bot.on('text') up to the await of the service call: the text is trimmed,
\* the session is read once, and the handler is suspended
TerminalTextReceived(u, t) ==
    /\ Turn(u)
    /\ IsFreeText(t)
    /\ u \in DOMAIN userState
    /\ AtTerminalStep(userState[u])
    /\ BagCardinality(inflight) < MaxInFlight
    /\ inflight' = inflight (+) SetToBag({[user |-> u, state |-> userState[u],
                                           text |-> trim(t)]})
    /\ UNCHANGED <<sessionVars, domainVars, reply, call, mutations, sideVars>>

\* the service call of a suspended handler, on the collections as they are now
\* and with the session as the handler read it
TerminalCall(a) ==
    IF a.state.flow = "join_conference"
    THEN [op |-> "joinConference", error |-> joinConference(a.user, a.text).error,
          domain |-> [Domain EXCEPT !.profiles = joinConference(a.user, a.text).profiles]]
    ELSE IF a.state.flow = "ask_question"
    THEN LET r == askQuestion(a.user, a.state.conferenceCode, a.text,
                              Field(a.state, "targetSpeaker"))
         IN  [op |-> "askQuestion", error |-> r.error,
              domain |-> [Domain EXCEPT !.questions = r.questions]]
    ELSE LET r == createConference(a.user, a.text, <<>>)
         IN  [op |-> "createConference", error |-> r.error,
              domain |-> [Domain EXCEPT !.conferences = r.conferences]]

\* the rest of the handler: the service call returns, and on success
\* clearUserState(ctx.from.id) deletes whatever the two maps now hold for the
\* user; on an error the catch block only replies
TerminalTextCompleted(a) ==
    LET r == TerminalCall(a)
        m == IF r.error = "none" THEN clearUserState(Maps, a.user)
             ELSE catchReplyOnly(Maps, a.user)
    IN  /\ BagIn(a, inflight)
        /\ inflight' = inflight (-) SetToBag({a})
        /\ userState' = m.userState
        /\ onboardingState' = m.onboardingState
        /\ conferences' = r.domain.conferences
        /\ profiles' = r.domain.profiles
        /\ questions' = r.domain.questions
        /\ polls' = r.domain.polls
        /\ call' = Call(r.op, a.user, r.error)
        /\ reply' = [user |-> a.user, kind |-> IF r.error = "none" THEN "done" ELSE "error",
                     was |-> a.state.flow]
        /\ mutations' = IF r.domain = Domain THEN mutations ELSE mutations + 1
        /\ UNCHANGED sideVars

\* a question long enough, and a text that is a conference code and a title
RaceTexts == {SlideText, DevCode}

\* flows started by buttons while text steps are suspended
NextRace ==
    \/ \E u \in Users : MenuJoinConference(u)
    \/ \E u \in Users : MenuAdminCreateConference(u)
    \/ \E u \in Users, c \in CallbackCodes : AskConf(u, c)
    \/ \E u \in Users, t \in RaceTexts : TerminalTextReceived(u, t)
    \/ \E a \in BagToSet(inflight) : TerminalTextCompleted(a)

SpecRace == InitAdmins /\ [][NextRace]_vars

\* C29: when a suspended terminal step finishes while its user is in a
\* session other than the one the step read, that session is still there and
\* unchanged afterwards.
C29_LaterSessionSurvives ==
    [][\A a \in BagToSet(inflight) :
          ( /\ call'.user = a.user
            /\ a.user \in DOMAIN userState
            /\ userState[a.user] # a.state
            /\ TerminalTextCompleted(a) )
          => ( /\ a.user \in DOMAIN userState'
               /\ userState'[a.user] = userState[a.user] )]_vars

\* the main admin at the title step of create-conference and user 7 at the
\* question step of ask-question, each in the one session of the run
InitTwice ==
    /\ userState = [u \in Users |->
                       IF u = 1 THEN [flow |-> "create_conference", step |-> "enter_title"]
                       ELSE [flow |-> "ask_question", conferenceCode |-> DevCode,
                             step |-> "enter_question"]]
    /\ onboardingState = EmptyMap
    /\ conferences = [c \in {DevCode} |->
                        [NewConference(1, <<"D","e","v"," ","D","a","y">>, <<>>)
                            EXCEPT !.admins = {ProfileKey(7, 1)}]]
    /\ profiles = [k \in {ProfileKey(7, 1)} |->
                      [NewProfile({"participant"}) EXCEPT !.onboardingCompleted = TRUE]]
    /\ questions = EmptyMap
    /\ polls = EmptyMap
    /\ reply = NoReply
    /\ call = NoCall
    /\ inflight = EmptyBag
    /\ mutations = 0
    /\ events = <<>>
    /\ ioInstance = "null"
    /\ profileDocs = EmptyMap
    /\ match = NoMatch
    /\ dialogs = MaxSessions

\* text events only: no session is started after the two of the start
NextTwice ==
    \/ \E u \in Users, t \in RaceTexts : TerminalTextReceived(u, t)
    \/ \E a \in BagToSet(inflight) : TerminalTextCompleted(a)

SpecTwice == InitTwice /\ [][NextTwice]_vars

\* C30: with one create-conference session and one ask-question session in
\* the whole run, at most one conference is created and at most one question
\* is asked.
C30_TerminalOperationOnce ==
    /\ Cardinality(DOMAIN conferences) <= 2
    /\ Cardinality(DOMAIN questions) <= 1

-----------------------------------------------------------------------------
(* The cancel word at every step *)

\* a text that is "cancel" or its Russian word once trimmed and in lower case
IsCancelWord(t) == toLowerCase(trim(t)) \in {CancelWord, OtmenaWord}

\* the texts of the runs that are such a word
CancelTexts == {t \in Texts : IsCancelWord(t)}

\* C31: a text that equals "cancel" or its Russian word after trimming and
\* case-folding is answered by the cancel branch whichever flow and step the
\* identity is in: no service is called with it, no collection changes, the
\* session is not moved to another step but removed.
C31_CancelWordReachesNoFlow ==
    [][\A u \in Users, t \in CancelTexts :
        ( /\ reply'.user = u
          /\ ~IsRegistered(t)
          /\ OnText(u, t) )
        => /\ reply'.kind = "cancelled"
           /\ call' = NoCall
           /\ ~HasSession(u)'
           /\ UNCHANGED domainVars]_vars

\* the cancel word has been sent at a step that would have taken it as a
\* conference code
C31_Witness ==
    /\ reply.kind = "cancelled"
    /\ reply.was = "join_conference"
    /\ call = NoCall
    /\ ~HasSession(reply.user)

-----------------------------------------------------------------------------
(* The first steps of create-poll and edit-conference *)

\* the text step has moved the session of u from one step of a flow to the next
Advanced(u, flow, from, to) ==
    /\ Flow(u) = flow
    /\ Step(u) = from
    /\ u \in DOMAIN userState'
    /\ userState'[u].flow = flow
    /\ userState'[u].step = to

\* C32: a text moves the create-poll session from the question step to the
\* options step only when it is a poll question of 5 to 200 characters after
\* trimming, and the edit-conference session from the title step to the
\* description step only when it is a title of 3 to 200 characters or "-".
C32_AdvanceOnlyWhenValid ==
    [][\A u \in Users, t \in Texts :
        ( /\ reply'.user = u
          /\ ~IsRegistered(t)
          /\ OnText(u, t) )
        => /\ Advanced(u, "create_poll", "enter_question", "enter_options")
                => pollQuestionSchema(trim(t))
           /\ Advanced(u, "edit_conference", "enter_title", "enter_description")
                => (trim(t) = Dash
                    \/ lengthWithin(t, MIN_TITLE_LENGTH, MAX_TITLE_LENGTH))]_vars

-----------------------------------------------------------------------------
(* A text at a step that takes none *)

\* the conditions of the userState branches of bot.on('text'), in one
TakesText(flow, step) ==
    \/ flow = "join_conference"
    \/ flow = "find_participants" /\ step = "enter_query"
    \/ flow = "ask_question" /\ step = "enter_question"
    \/ flow = "answer_question" /\ step = "enter_answer"
    \/ flow = "edit_conference" /\ step \in {"enter_title", "enter_description"}
    \/ flow \in {"create_poll", "edit_poll"} /\ step = "enter_question"
    \/ flow = "create_poll" /\ step = "enter_options"
    \/ flow = "assign_admin" /\ step = "enter_telegram_id"
    \/ flow = "set_slide" /\ step = "enter_url"
    \/ flow = "create_conference" /\ step = "enter_title"

\* the texts of the runs that reach the session lookup of bot.on('text')
FreeTexts == {t \in Texts : IsFreeText(t)}

\* C33: a free text from an identity whose flow-state session is at a flow and
\* step that take no text (such as a conference-selection step) removes the
\* identity's session and calls no service: no collection changes and nothing
\* is published.
C33_TextAtSelectionClears ==
    [][\A u \in Users, t \in FreeTexts :
        ( /\ reply'.user = u
          /\ u \in DOMAIN userState
          /\ ~TakesText(Flow(u), Step(u))
          /\ OnText(u, t) )
        => /\ ~HasSession(u)'
           /\ call' = NoCall
           /\ UNCHANGED <<domainVars, events>>]_vars

\* a text has been sent at a conference-selection step
C33_Witness ==
    /\ reply.kind = "reset"
    /\ reply.was \in {"find_participants", "ask_question", "polls",
                      "moderate_questions", "speaker_questions", "manage_participants"}
    /\ call = NoCall
    /\ ~HasSession(reply.user)

-----------------------------------------------------------------------------
(* A text for an identity that has an entry in both maps *)

\* the onboarding entry of u is as it was, or gone
OnboardingUntouched(u) ==
    u \in DOMAIN onboardingState' => onboardingState'[u] = onboardingState[u]

\* C34: a free text from an identity that has an onboarding entry and a
\* flow-state entry is handled by the branch of the flow-state entry alone:
\* the onboarding step does not advance, no onboarding field is recorded from
\* the text, and the profile upsert of the last onboarding step is not called.
C34_FlowStateBeforeOnboarding ==
    [][\A u \in Users, t \in FreeTexts :
        ( /\ reply'.user = u
          /\ u \in DOMAIN userState
          /\ u \in DOMAIN onboardingState
          /\ OnText(u, t) )
        => /\ OnboardingUntouched(u)
           /\ call'.op # "upsertProfileForConference"
           /\ reply'.was = Flow(u)]_vars

\* a text step of a flow has answered an identity that is in both maps, and
\* has left both entries in place
C34_Witness ==
    \E u \in Users :
        /\ u \in DOMAIN userState
        /\ u \in DOMAIN onboardingState
        /\ reply.user = u
        /\ reply.was = userState[u].flow
        /\ call.user = u
        /\ call.op \in {"searchProfiles", "askQuestion", "joinConference", "validate"}

-----------------------------------------------------------------------------
(* The slide of a conference: who may change it *)

\* the texts of the slide runs: a slide line, a word that is no url, a telegram id
SlideTexts == {SlideText, DevCode, <<"7">>}

\* the start of the dialog runs: user 1 is the main admin, user 7 has a
\* profile in conference dev that is not among its admins
NextSlides ==
    \/ \E io \in {"io", "io_down"} : SetIO(io)
    \/ \E u \in Users, c \in CallbackCodes : AdminSetSlide(u, c)
    \/ \E u \in Users, c \in CallbackCodes : AdminClearSlide(u, c)
    \/ \E u \in Users, c \in CallbackCodes : AdminAssignAdmin(u, c)
    \/ \E u \in Users, t \in SlideTexts : OnText(u, t)

SpecSlides == InitFlow /\ [][NextSlides]_vars

\* the url of a slide line, as the set_slide branch takes it
SlideUrl(t) ==
    LET parts == filterBoolean(split(trim(t), " "))
    IN  IF parts = <<>> THEN Undefined ELSE parts[1]

\* the step is a clearSlide or a setSlide requested by u for a conference
\* there is
SlideRequest(u, c, t) ==
    /\ call'.user = u
    /\ \/ call'.op = "clearSlide" /\ AdminClearSlide(u, c)
       \/ /\ Flow(u) = "set_slide"
          /\ userState[u].conferenceCode = c
          /\ OnText(u, t)

\* the request is refused with this error and leaves the slide and the events alone
Refused(error) ==
    /\ call'.error = error
    /\ conferences' = conferences
    /\ events' = events

\* C35: a clearSlide, or a setSlide whose input passes validation, requested
\* for a conference by a user who is neither a main admin nor the owner of a
\* profile among the conference's admins fails with ACCESS_DENIED; a setSlide
\* of such a user whose input does not pass validation fails with
\* VALIDATION_ERROR; either way the slide url and title of the conference stay
\* as they were and no event is emitted.
C35_NonAdminSlideRefused ==
    [][\A u \in Users, c \in DOMAIN conferences, t \in SlideTexts :
        (~isConferenceAdmin(u, conferences[c]) /\ SlideRequest(u, c, t))
        => IF call'.op = "clearSlide" \/ slideUrlSchema(SlideUrl(t))
           THEN Refused("ACCESS_DENIED")
           ELSE Refused("VALIDATION_ERROR")]_vars

\* C35 as first stated: every such request fails with ACCESS_DENIED
C35_NonAdminAlwaysDenied ==
    [][\A u \in Users, c \in DOMAIN conferences, t \in SlideTexts :
        (~isConferenceAdmin(u, conferences[c]) /\ SlideRequest(u, c, t))
        => Refused("ACCESS_DENIED")]_vars

\* user 7 has been refused a clearSlide while the slide of the conference is set
C35_Witness ==
    /\ call = Call("clearSlide", 7, "ACCESS_DENIED")
    /\ conferences[DevCode].currentSlideUrl # Undefined
    /\ conferences[DevCode].admins = {}

-----------------------------------------------------------------------------
(* setSlide and clearSlide await by await *)

UrlX == <<"h","t","t","p",":","/","/","x">>
UrlY == <<"h","t","t","p",":","/","/","y">>

\* the urls a setSlide is called with; the conference code is no url
SlideUrls == {UrlX, UrlY, DevCode}

SlideOps == {"setSlide", "clearSlide"}

\* a call that ends here: nothing is in flight for it any more
SlideCallEnds(op, u, error) ==
    /\ call' = Call(op, u, error)
    /\ reply' = [user |-> u, kind |-> IF error = "none" THEN "done" ELSE "error",
                 was |-> Was(u)]

\* setSlide or clearSlide from its entry to the await of conference.save():
\* validation (setSlide), Conference.findOne, assertConferenceAdmin, and the
\* two assignments to the document the call holds
SlideRequested(u, op, code, url) ==
    /\ BagCardinality(inflight) < MaxInFlight
    /\ LET error == IF op = "setSlide" /\ ~slideSchema(url, <<>>, code)
                    THEN "VALIDATION_ERROR"
                    ELSE IF code \notin DOMAIN conferences THEN "CONFERENCE_NOT_FOUND"
                    ELSE IF ~isConferenceAdmin(u, conferences[code]) THEN "ACCESS_DENIED"
                    ELSE "none"
       IN  IF error # "none"
           THEN /\ SlideCallEnds(op, u, error)
                /\ inflight' = inflight
           ELSE /\ inflight' = inflight (+) SetToBag({
                        [user |-> u, op |-> op, code |-> code, at |-> "save",
                         currentSlideUrl |-> IF op = "setSlide" THEN url ELSE Undefined,
                         currentSlideTitle |-> IF op = "setSlide" THEN <<>> ELSE Undefined]})
                /\ UNCHANGED <<reply, call>>
    /\ UNCHANGED <<sessionVars, domainVars, mutations, sideVars>>

\* await conference.save(): the document's slide fields are written to the
\* collection, or the save throws and the call ends
SlideSaved(a, saveError) ==
    /\ BagIn(a, inflight)
    /\ a.at = "save"
    /\ IF saveError = "none"
       THEN /\ conferences' = [conferences EXCEPT
                                  ![a.code].currentSlideUrl = a.currentSlideUrl,
                                  ![a.code].currentSlideTitle = a.currentSlideTitle]
            /\ inflight' = (inflight (-) SetToBag({a}))
                              (+) SetToBag({[a EXCEPT !.at = "emit"]})
            /\ UNCHANGED <<reply, call>>
       ELSE /\ conferences' = conferences
            /\ inflight' = inflight (-) SetToBag({a})
            /\ SlideCallEnds(a.op, a.user, saveError)
    /\ UNCHANGED <<sessionVars, profiles, questions, polls, mutations, sideVars>>

\* the rest of the call once the save has resolved: emitToConference with the
\* slide fields of the document the call holds, then return
SlideEmitted(a) ==
    /\ BagIn(a, inflight)
    /\ a.at = "emit"
    /\ Len(events) < MaxEvents
    /\ inflight' = inflight (-) SetToBag({a})
    /\ LET payload == IF a.op = "setSlide"
                      THEN [url |-> a.currentSlideUrl, title |-> a.currentSlideTitle]
                      ELSE [url |-> Null, title |-> Null]
           emitted == emitToConference(events, conferences[a.code].id, "slide-updated", payload)
       IN  /\ events' = emitted.events
           /\ SlideCallEnds(a.op, a.user, emitted.error)
    /\ UNCHANGED <<sessionVars, domainVars, mutations, ioInstance, profileDocs, match, dialogs>>

SlideCalls ==
    {[user |-> u, op |-> op, code |-> DevCode, at |-> at,
      currentSlideUrl |-> url, currentSlideTitle |-> title] :
        u \in Users, op \in SlideOps, at \in {"save", "emit"},
        url \in SlideUrls \cup {Undefined}, title \in {<<>>, Undefined}}

NextSlideCalls ==
    \/ \E u \in Users, op \in SlideOps, c \in CallbackCodes, url \in SlideUrls :
          SlideRequested(u, op, c, url)
    \/ \E a \in SlideCalls, e \in {"none", "SAVE_FAILED"} : SlideSaved(a, e)
    \/ \E a \in SlideCalls : SlideEmitted(a)

SpecSlideCalls == InitFlow /\ [][NextSlideCalls]_vars

\* the slide this event announces is the slide the conference record holds
Announced(e, conference) ==
    /\ e.room = Room(conference.id)
    /\ IF e.payload.url = Null
       THEN conference.currentSlideUrl = Undefined
       ELSE /\ conference.currentSlideUrl = e.payload.url
            /\ conference.currentSlideTitle = e.payload.title

\* C36: a slide-updated event is emitted only by a setSlide or clearSlide call
\* whose save has succeeded, never by a step in which validation, the lookup,
\* the authorization check or the save fails; and when it is emitted, the
\* conference record holds the slide the event announces.
C36_EventAfterSaveShowsSlide ==
    [][events' # events
        => /\ Len(events') = Len(events) + 1
           /\ \E a \in BagToSet(inflight) : a.at = "emit" /\ SlideEmitted(a)
           /\ call'.error = "none"
           /\ Announced(events'[Len(events')], conferences'[DevCode])]_vars

-----------------------------------------------------------------------------
(* The handlers registered a second time for a pattern *)

\* the second bot.action(/^ask:conf:(.+)$/): listSpeakers; without a speaker
\* clearUserState and the question step with targetSpeaker null; with
\* speakers only the selection menu, the maps stay as they are
AskConfSecond(u, conferenceCode) ==
    /\ Turn(u)
    /\ MayStart
    /\ IF listSpeakers(conferenceCode) = {}
       THEN Handled(u,
                    setUserState(clearUserState(Maps, u), u,
                        [flow |-> "ask_question", conferenceCode |-> conferenceCode,
                         step |-> "enter_question", targetSpeaker |-> Undefined]),
                    "prompt", Call("listSpeakers", u, "none"), Domain)
       ELSE Handled(u, Maps, "list", Call("listSpeakers", u, "none"), Domain)

\* the second bot.action(/^admin:conf:(.+)$/)
AdminConfSecond(u, conferenceCode) == ConferencePage(u, conferenceCode)

\* the second bot.action(/^poll:deactivate:(.+)$/)
PollDeactivateSecond(u, pollId) ==
    /\ pollId \in DOMAIN polls
    /\ polls[pollId].isActive
    /\ polls' = [polls EXCEPT ![pollId].isActive = FALSE]
    /\ call' = [op |-> "deactivatePoll", user |-> u, error |-> "none"]
    /\ reply' = [user |-> u, kind |-> "poll_deactivated", was |-> "undefined"]
    /\ UNCHANGED <<sessionVars, conferences, profiles, questions, inflight, mutations, sideVars>>

\* C37: for each pattern registered twice (admin:conf, poll:deactivate,
\* ask:conf) the two handlers are equivalent: every step of the handler that
\* answers the event is a step the other registration would take from the same
\* state with the same input, leaving the same session maps and calling the
\* same operation.
C37_TwinHandlersEquivalent ==
    [][/\ \A u \in Users, c \in DOMAIN conferences :
             (reply'.user = u /\ AdminConf(u, c)) => AdminConfSecond(u, c)
       /\ \A u \in Users, p \in DOMAIN polls :
             (reply'.user = u /\ PollDeactivate(u, p)) => PollDeactivateSecond(u, p)
       /\ \A u \in Users, c \in DOMAIN conferences :
             (reply'.user = u /\ reply'.kind = "prompt" /\ call' = NoCall /\ AskConf(u, c))
             => AskConfSecond(u, c)]_vars

-----------------------------------------------------------------------------
(* The search among the profiles of a conference *)

\* the number of profiles of the conference in the search runs: one more than
\* the limit of the find_participants branch
NumProfiles == 21

AiWord == <<"a","i">>
BioWord == <<"b","i","o">>

\* the queries of the search runs: a text, a role with a text in capitals, a role
SearchTexts == {AiWord, <<"s","p","e","a","k","e","r"," ","A","I">>,
                <<"s","p","e","a","k","e","r">>}

\* conference dev with NumProfiles active profiles that completed onboarding;
\* profile h has the interest "ai", the others "bio"; profile s is a speaker
InitSearch ==
    /\ userState = EmptyMap
    /\ onboardingState = EmptyMap
    /\ conferences = [c \in {DevCode} |->
                         NewConference(1, <<"D","e","v"," ","D","a","y">>, <<>>)]
    /\ \E h \in 1..NumProfiles, s \in 1..NumProfiles :
          profiles = [k \in {ProfileKey(n, 1) : n \in 1..NumProfiles} |->
                        [roles |-> IF k[1] = s THEN {"participant", "speaker"}
                                   ELSE {"participant"},
                         isActive |-> TRUE,
                         onboardingCompleted |-> TRUE,
                         interests |-> IF k[1] = h THEN <<AiWord>> ELSE <<BioWord>>]]
    /\ questions = EmptyMap
    /\ polls = EmptyMap
    /\ reply = NoReply
    /\ call = NoCall
    /\ inflight = EmptyBag
    /\ mutations = 0
    /\ events = <<>>
    /\ ioInstance = "io"
    /\ profileDocs = EmptyMap
    /\ match = NoMatch
    /\ dialogs = MaxDialogs

NextSearch ==
    \/ \E u \in Users : MenuFindParticipants(u)
    \/ \E u \in Users, c \in CallbackCodes : FindConf(u, c)
    \/ \E u \in Users, t \in SearchTexts : OnText(u, t)

SpecSearch == InitSearch /\ [][NextSearch]_vars

\* the profiles of the conference that the filters of a search describe
Matching(code, role, text) ==
    {k \in DOMAIN profiles :
        /\ k[2] = conferences[code].id
        /\ profiles[k].isActive
        /\ profiles[k].onboardingCompleted
        /\ role # Undefined => RoleName(role) \in profiles[k].roles
        /\ (text # Undefined /\ trim(text) # <<>>)
              => \E f \in {"interests", "offerings", "lookingFor"} \cap DOMAIN profiles[k] :
                    \E i \in DOMAIN profiles[k][f] :
                        includes(toLowerCase(profiles[k][f][i]), toLowerCase(trim(text)))}

\* the result of a search is made of matching profiles, at most limit of them,
\* and is all of them when it is fewer than limit
ExactUpTo(code, role, text, limit) ==
    LET r == searchProfiles(code, role, text, limit)
    IN  /\ r.error = "none"
        /\ Range(r.profiles) \subseteq Matching(code, role, text)
        /\ Len(r.profiles) <= limit
        /\ Len(r.profiles) < limit => Matching(code, role, text) \subseteq Range(r.profiles)

\* C38: a search in a conference that exists returns profiles of the conference
\* that are active, completed onboarding, carry the role asked for and contain
\* the trimmed text in an interests, offerings or looking-for entry whatever
\* the case, at most limit of them; when it returns fewer than limit, no other
\* profile of the conference matches.
C38_SearchReturnsTheMatches ==
    [][\A u \in Users, t \in SearchTexts :
        ( /\ call' = Call("searchProfiles", u, "none")
          /\ Flow(u) = "find_participants"
          /\ OnText(u, t) )
        => ExactUpTo(userState[u].conferenceCode, QueryRole(trim(t)), QueryText(trim(t)),
                     SearchLimit)]_vars

====
